---------------------------- MODULE Spec2Model ----------------------------
(***************************************************************************)
(* Action governance pipeline of odarkserver/ai-dataset-storage:           *)
(*   PermissionGate  (src/unnamed/part_005)                                *)
(*   AgentExecutor   (src/src/lib/core/agentExecutor.ts)                   *)
(*   PluginExecutor, AuditLogger (src/src/lib/plugins/githubStorage.ts)    *)
(*   ZhupiAdapter, CommitRouter  (src/src/lib/api/zhupiAdapter.ts)         *)
(*   chat route (src/src/app/api/chat/route.ts), modular plugin route      *)
(*   (src/unnamed/part_004).                                               *)
(*                                                                         *)
(* The program runs on one JavaScript event loop: a handler runs without   *)
(* interruption from one await to the next, so every action below is one   *)
(* such synchronous segment, and the awaits are the interleaving points.   *)
(*                                                                         *)
(* Text is modelled as a sequence of words (the words of the message,      *)
(* separated by single blanks).  For the words of Vocabulary the substring *)
(* test String.includes(keyword) coincides with "the keyword's words occur *)
(* contiguously in the message".                                           *)
(***************************************************************************)
EXTENDS Naturals, Sequences, FiniteSets, TLC

VARIABLES
    permissions,       \* PermissionGate.permissions : user -> set of actions
    permLog,           \* PermissionGate.auditLog    : sequence of Permission
    pendingLogs,       \* AuditLogger.pendingLogs
    flushing,          \* the batch a flushLogs call is writing (logsToFlush)
    auditStore,        \* rows of db.auditLog
    executionHistory,  \* executionHistory of PluginExecutor / CommitRouter / ZhupiAdapter
    reqs,              \* the chat requests (POST /api/chat), one record each
    invocations,       \* every capability invocation made so far
    adminCalls,        \* number of permission administration calls made
    routeCalls,        \* number of POSTs to the modular plugin route
    lastCall,          \* the last call of a public method of PermissionGate
                       \* other than through execute, and what it returned
    routeResponse,     \* the body of the modular plugin route's last response
    returned,          \* the error and critical records whose logAction returned
    raised,            \* the records of a flush that raised the store's error
    now,               \* the clock: what Date.now() and new Date() read
    logged,            \* every record logAction built, in the order of the calls
    previewed,         \* what the direct calls of createPreview returned, in order
    shellCommand,      \* rows of db.shellCommand; a row's id is its position
    shellAudit,        \* the rows ShellAuditService.createAuditLog wrote
    shellCalls,        \* the calls made to the shell route, one record each
    shellRuns,         \* every command execAsync was given, in order
    dbManager,         \* DatabaseManager: config and backupTimer (0: undefined)
    intervals,         \* the timers setInterval made (a count) and those still active
    savedConfig,       \* the row database_manager_config of db.localStorage
    databaseBackup,    \* rows of db.databaseBackup, in the order they were created
    backupCalls,       \* the backupDatabase calls, one record each
    connector,         \* GitHubConnector: its config
    connectorConfig,   \* the row github_connector_config of db.localStorage
    connectCalls       \* the connectWithToken calls, one record each

vars == <<permissions, permLog, pendingLogs, flushing, auditStore,
          executionHistory, reqs, invocations, adminCalls, routeCalls,
          lastCall, routeResponse, returned, raised, now, logged, previewed,
          shellCommand, shellAudit, shellCalls, shellRuns,
          dbManager, intervals, savedConfig, databaseBackup, backupCalls,
          connector, connectorConfig, connectCalls>>

\* the state of ShellAuditService, of DatabaseManager and of GitHubConnector
shellVars == <<shellCommand, shellAudit, shellCalls, shellRuns>>

managerVars == <<dbManager, intervals, savedConfig, databaseBackup, backupCalls>>

connectorVars == <<connector, connectorConfig, connectCalls>>

---------------------------------------------------------------------------
(* Bounds of the model *)

MaxAdminCalls == 1
MaxRouteCalls == 1
MaxWords == 3
MaxApproved == 2
MaxGateCalls == 2
MaxChecks == 2
MaxHistoryCalls == 110
MaxSecurityEvents == 2
MaxTrail == 3
MaxPreviews == 2
MaxOutageEvents == 1
MaxRetentionClock == 2
MaxShellCalls == 3
MaxLockCalls == 3
MaxTimers == 2
MaxBackupCalls == 3
MaxBackupClock == 1
MaxKept == 1
MaxConnectCalls == 2

---------------------------------------------------------------------------
(* Text *)

Vocabulary ==
    {"restart", "agent", "clear", "cache", "update", "memory",
     "translate", "get", "persona", "github", "save", "Agent"}

toLowerCase(w) ==
    CASE w = "Agent" -> "agent"
      [] w = "Restart" -> "restart"
      [] w = "Shutdown" -> "shutdown"
      [] OTHER -> w

lower(text) == [k \in 1..Len(text) |-> toLowerCase(text[k])]

\* String.prototype.includes on word sequences
includes(text, phrase) ==
    \E k \in 0..(Len(text) - Len(phrase)) :
        \A j \in 1..Len(phrase) : text[k + j] = phrase[j]

\* Array.prototype.includes
arrayIncludes(arr, x) == \E k \in 1..Len(arr) : arr[k] = x

\* messages of at most n words
Messages(n) == UNION {[1..k -> Vocabulary] : k \in 1..n}

---------------------------------------------------------------------------
(* PermissionGate *)

PermLogCap == 1000
PermLogKeep == 500

RoleNames == {"super_admin", "admin", "user", "guest"}

rolePermissions(role) ==
    CASE role = "super_admin" ->
            {"pluginSummarizer", "pluginTranslator", "pluginGitHubStorage",
             "restartAgent", "clearCache", "getPersona", "updateMemory",
             "systemDiagnostic", "healthCheck", "systemConfiguration",
             "userManagement", "auditAccess", "apiManagement"}
      [] role = "admin" ->
            {"pluginSummarizer", "pluginTranslator", "pluginGitHubStorage",
             "getPersona", "systemDiagnostic", "healthCheck"}
      [] role = "user" ->
            {"pluginSummarizer", "pluginTranslator", "pluginGitHubStorage",
             "getPersona"}
      [] role = "guest" -> {}

initializePermissions ==
    [u \in {"Han", "han"} |-> rolePermissions("super_admin")]

\* isAuthorized that lets a user without an entry through
isAuthorizedUnknownUserAllowed(perms, action, user) ==
    IF user \notin DOMAIN perms THEN TRUE ELSE action \in perms[user]

\* the value isAuthorized returns
isAuthorized(perms, action, user) ==
    IF user \notin DOMAIN perms THEN FALSE ELSE action \in perms[user]

\* logPermission with slice(0, 500): the oldest entries are kept
logPermissionKeepOldest(log, action, user, granted) ==
    LET pushed == Append(log, [action |-> action, user |-> user, granted |-> granted])
    IN  IF Len(pushed) > PermLogCap
        THEN SubSeq(pushed, 1, PermLogKeep)
        ELSE pushed

\* the record isAuthorized appends
logPermission(log, action, user, granted) ==
    LET pushed == Append(log, [action |-> action, user |-> user, granted |-> granted])
    IN  IF Len(pushed) > PermLogCap
        THEN SubSeq(pushed, Len(pushed) - PermLogKeep + 1, Len(pushed))
        ELSE pushed

\* hasRole that takes a role without permissions for a role nobody holds
hasRoleNonEmptyOnly(perms, user, role) ==
    IF user \notin DOMAIN perms \/ role \notin RoleNames
    THEN FALSE
    ELSE /\ rolePermissions(role) # {}
         /\ \A p \in rolePermissions(role) : p \in perms[user]

hasRole(perms, user, role) ==
    IF user \notin DOMAIN perms \/ role \notin RoleNames
    THEN FALSE
    ELSE \A p \in rolePermissions(role) : p \in perms[user]

\* grantPermission that adds to an existing entry only: for a user without an
\* entry nothing is stored
grantPermissionToKnownUsersOnly(perms, user, action, grantedBy) ==
    IF ~(/\ grantedBy \in DOMAIN perms
         /\ \A p \in rolePermissions("super_admin") : p \in perms[grantedBy])
    THEN [permissions |-> perms, result |-> FALSE]
    ELSE IF user \notin DOMAIN perms
    THEN [permissions |-> perms, result |-> TRUE]
    ELSE [permissions |-> [perms EXCEPT ![user] = @ \cup {action}], result |-> TRUE]

\* grantPermission that asks only whether the granting user has an entry
grantPermissionByAnyKnownUser(perms, user, action, grantedBy) ==
    IF grantedBy \notin DOMAIN perms
    THEN [permissions |-> perms, result |-> FALSE]
    ELSE [permissions |->
            [u \in DOMAIN perms \cup {user} |->
                IF u = user
                THEN (IF user \in DOMAIN perms THEN perms[user] ELSE {}) \cup {action}
                ELSE perms[u]],
          result |-> TRUE]

grantPermission(perms, user, action, grantedBy) ==
    IF ~hasRole(perms, grantedBy, "super_admin")
    THEN [permissions |-> perms, result |-> FALSE]
    ELSE [permissions |->
            [u \in DOMAIN perms \cup {user} |->
                IF u = user
                THEN (IF user \in DOMAIN perms THEN perms[user] ELSE {}) \cup {action}
                ELSE perms[u]],
          result |-> TRUE]

revokePermission(perms, user, action, revokedBy) ==
    IF ~hasRole(perms, revokedBy, "super_admin")
    THEN [permissions |-> perms, result |-> FALSE]
    ELSE IF user \notin DOMAIN perms
    THEN [permissions |-> perms, result |-> FALSE]
    ELSE [permissions |-> [perms EXCEPT ![user] = @ \ {action}],
          result |-> action \in perms[user]]

\* assignRole that also lets a user assign a role to itself
assignRoleToSelf(perms, user, role, assignedBy) ==
    IF ~hasRole(perms, assignedBy, "super_admin") /\ assignedBy # user
    THEN [permissions |-> perms, result |-> FALSE]
    ELSE IF role \notin RoleNames
    THEN [permissions |-> perms, result |-> FALSE]
    ELSE [permissions |->
            [u \in DOMAIN perms \cup {user} |->
                IF u = user THEN rolePermissions(role) ELSE perms[u]],
          result |-> TRUE]

assignRole(perms, user, role, assignedBy) ==
    IF ~hasRole(perms, assignedBy, "super_admin")
    THEN [permissions |-> perms, result |-> FALSE]
    ELSE IF role \notin RoleNames
    THEN [permissions |-> perms, result |-> FALSE]
    ELSE [permissions |->
            [u \in DOMAIN perms \cup {user} |->
                IF u = user THEN rolePermissions(role) ELSE perms[u]],
          result |-> TRUE]

\* data is the parsed backup: isNull when it is null or undefined (data.users
\* then raises a TypeError, which the try block catches), else users maps the
\* users of data.users to their permission sets
importPermissions(perms, data, importedBy) ==
    IF ~hasRole(perms, importedBy, "super_admin")
    THEN [permissions |-> perms, result |-> FALSE]
    ELSE IF data.isNull
    THEN [permissions |-> perms, result |-> FALSE]
    ELSE [permissions |->
            [u \in DOMAIN perms \cup DOMAIN data.users |->
                IF u \in DOMAIN data.users THEN data.users[u] ELSE perms[u]],
          result |-> TRUE]

requiresApproval(action) ==
    action \in {"restartAgent", "clearCache", "updateMemory",
                "systemConfiguration", "userManagement", "apiManagement"}

getActionRiskLevel(action) ==
    IF action \in {"restartAgent"} THEN "critical"
    ELSE IF action \in {"clearCache", "updateMemory", "userManagement"} THEN "high"
    ELSE IF action \in {"systemDiagnostic", "systemConfiguration"} THEN "medium"
    ELSE "low"

---------------------------------------------------------------------------
(* Parameters of a capability: a record of the fields that are present.    *)
(* A field's value is its kind ("string": a non-empty string, "empty": the *)
(* empty string, "object", "number"), except action, whose value is the    *)
(* string itself.  A missing parameter object validates like {}.           *)

field(params, f) == IF f \in DOMAIN params THEN params[f] ELSE "undefined"

NoParams == [f \in {} |-> "undefined"]

---------------------------------------------------------------------------
(* PluginExecutor, CommitRouter, ZhupiAdapter *)

PluginHistoryCap == 100
PluginHistoryKeep == 50
CommitHistoryCap == 100
CommitHistoryKeep == 50
ZhupiHistoryCap == 100
ZhupiHistoryKeep == 50

PluginNames ==
    {"pluginSummarizer", "pluginTranslator", "pluginGitHubStorage",
     "pluginGitHubConnector", "pluginDatabaseManager"}

pluginValidate(name, params) ==
    CASE name = "pluginSummarizer" -> field(params, "text") = "string"
      [] name = "pluginTranslator" ->
            /\ field(params, "text") = "string"
            /\ field(params, "targetLanguage") = "string"
      [] name = "pluginGitHubStorage" ->
            field(params, "action") \in {"save", "load", "list", "delete", "search", "stats"}
      [] name = "pluginGitHubConnector" ->
            field(params, "action") \in
                {"connect", "disconnect", "status", "test", "list_repos", "setup"}
      [] name = "pluginDatabaseManager" ->
            field(params, "action") \in
                {"backup", "restore", "list", "delete", "sync", "stats", "setup"}

CommitActionNames ==
    {"restartAgent", "clearCache", "restartModels", "updateConfig",
     "backupSystem", "cleanupLogs"}

commitValidate(name, params) ==
    CASE name = "updateConfig" -> field(params, "config") = "object"
      [] name = "cleanupLogs" -> field(params, "days") \in {"undefined", "number"}
      [] OTHER -> TRUE

ZhupiActionNames ==
    {"getPersona", "updateMemory", "getUserPreferences", "setUserPreferences",
     "getAnalytics", "createPersona"}

zhupiValidate(name, params) ==
    CASE name = "updateMemory" -> field(params, "updates") = "object"
      [] name = "getUserPreferences" -> field(params, "userId") = "string"
      [] name = "setUserPreferences" ->
            /\ field(params, "userId") = "string"
            /\ field(params, "preferences") = "object"
      [] name = "createPersona" ->
            /\ field(params, "name") = "string"
            /\ field(params, "traits") = "object"
      [] OTHER -> TRUE

\* executePlugin that runs the plugin without asking validate
executePluginUnvalidated(history, pluginName, parameters, threw) ==
    IF pluginName \notin PluginNames
    THEN [result |-> [success |-> FALSE, error |-> "not found"], history |-> history]
    ELSE IF ~threw
    THEN LET pushed == Append(history, [name |-> pluginName, success |-> TRUE])
         IN  [result |-> [success |-> TRUE, error |-> ""],
              history |-> IF Len(pushed) > PluginHistoryCap
                          THEN SubSeq(pushed, Len(pushed) - PluginHistoryKeep + 1,
                                      Len(pushed))
                          ELSE pushed]
    ELSE [result |-> [success |-> FALSE, error |-> "execution failed"],
          history |-> Append(history, [name |-> pluginName, success |-> FALSE])]

\* executePlugin: threw tells whether plugin.execute raised an error.
\* The result and the new execution history.
executePlugin(history, pluginName, parameters, threw) ==
    IF pluginName \notin PluginNames
    THEN [result |-> [success |-> FALSE, error |-> "not found"], history |-> history]
    ELSE IF ~pluginValidate(pluginName, parameters)
    THEN [result |-> [success |-> FALSE, error |-> "invalid parameters"],
          history |-> history]
    ELSE IF ~threw
    THEN LET pushed == Append(history, [name |-> pluginName, success |-> TRUE])
         IN  [result |-> [success |-> TRUE, error |-> ""],
              history |-> IF Len(pushed) > PluginHistoryCap
                          THEN SubSeq(pushed, Len(pushed) - PluginHistoryKeep + 1,
                                      Len(pushed))
                          ELSE pushed]
    ELSE [result |-> [success |-> FALSE, error |-> "execution failed"],
          history |-> Append(history, [name |-> pluginName, success |-> FALSE])]

\* CommitRouter.executeAction
commitExecuteAction(history, actionName, parameters, threw) ==
    IF actionName \notin CommitActionNames
    THEN [result |-> [success |-> FALSE, error |-> "not found"], history |-> history]
    ELSE IF ~commitValidate(actionName, parameters)
    THEN [result |-> [success |-> FALSE, error |-> "invalid parameters"],
          history |-> history]
    ELSE IF ~threw
    THEN LET pushed == Append(history, [name |-> actionName, success |-> TRUE])
         IN  [result |-> [success |-> TRUE, error |-> ""],
              history |-> IF Len(pushed) > CommitHistoryCap
                          THEN SubSeq(pushed, Len(pushed) - CommitHistoryKeep + 1,
                                      Len(pushed))
                          ELSE pushed]
    ELSE [result |-> [success |-> FALSE, error |-> "execution failed"],
          history |-> Append(history, [name |-> actionName, success |-> FALSE])]

\* ZhupiAdapter.executeAction
zhupiExecuteAction(history, actionName, parameters, threw) ==
    IF actionName \notin ZhupiActionNames
    THEN [result |-> [success |-> FALSE, error |-> "not found"], history |-> history]
    ELSE IF ~zhupiValidate(actionName, parameters)
    THEN [result |-> [success |-> FALSE, error |-> "invalid parameters"],
          history |-> history]
    ELSE IF ~threw
    THEN LET pushed == Append(history, [name |-> actionName, success |-> TRUE])
         IN  [result |-> [success |-> TRUE, error |-> ""],
              history |-> IF Len(pushed) > ZhupiHistoryCap
                          THEN SubSeq(pushed, Len(pushed) - ZhupiHistoryKeep + 1,
                                      Len(pushed))
                          ELSE pushed]
    ELSE [result |-> [success |-> FALSE, error |-> "execution failed"],
          history |-> Append(history, [name |-> actionName, success |-> FALSE])]

---------------------------------------------------------------------------
(* AuditLogger *)

\* words of an action string that contain "restart" or "clear"
hasRestartOrClear(action) ==
    \E k \in 1..Len(action) :
        action[k] \in {"restart", "clear", "restartAgent", "clearCache"}

\* the category prefix an action string starts with ("" when none)
actionPrefix(action) ==
    IF Len(action) = 0 THEN ""
    ELSE CASE action[1] \in {"plugin_pluginSummarizer", "plugin_pluginTranslator"} -> "plugin_"
           [] action[1] \in {"commit_api_restartAgent", "commit_api_clearCache"} -> "commit_api_"
           [] action[1] \in {"zhupi_api_getPersona", "zhupi_api_updateMemory"} -> "zhupi_api_"
           [] action[1] \in {"security_event"} -> "security_"
           [] OTHER -> ""

inferCategory(action) ==
    IF actionPrefix(action) = "plugin_" THEN "plugin"
    ELSE IF actionPrefix(action) = "commit_api_" THEN "commit_api"
    ELSE IF actionPrefix(action) = "zhupi_api_" THEN "zhupi_api"
    ELSE IF actionPrefix(action) = "security_" THEN "security"
    ELSE IF action = <<"chat">> THEN "chat"
    ELSE "system"

\* success is "true", "false" or "undefined" (result.success)
inferLevel(action, success) ==
    IF actionPrefix(action) = "security_" THEN "warning"
    ELSE IF success = "false" THEN "error"
    ELSE IF hasRestartOrClear(action) THEN "warning"
    ELSE "info"

\* the id of a record: "audit_", the milliseconds of the clock, "_", and the
\* digits drawn from Math.random()
auditId(ms, rnd) == <<"audit", ms, rnd>>

\* the AuditLog record logAction builds; category and level are the caller's
\* options, "" when the caller leaves them out; ms is the clock at the call
\* and rnd the draw of Math.random()
auditRecord(actor, action, what, success, executionId, category, level, ms, rnd) ==
    [id |-> auditId(ms, rnd), timestamp |-> ms,
     actor |-> actor, action |-> action, what |-> what, success |-> success,
     executionId |-> executionId,
     category |-> IF category = "" THEN inferCategory(action) ELSE category,
     level |-> IF level = "" THEN inferLevel(action, success) ELSE level]

\* the synchronous part of flushLogs: nothing when the buffer is empty, else
\* the buffer becomes the batch of one more write in flight
flushLogs(pending, inflight) ==
    IF Len(pending) = 0
    THEN [pendingLogs |-> pending, flushing |-> inflight]
    ELSE [pendingLogs |-> <<>>, flushing |-> Append(inflight, pending)]

\* logAction up to its return: the record is pushed, and an error or critical
\* record starts a flush
logAction(pending, inflight, rec) ==
    IF rec.level \in {"critical", "error"}
    THEN flushLogs(Append(pending, rec), inflight)
    ELSE [pendingLogs |-> Append(pending, rec), flushing |-> inflight]

\* flushSettled with the rejected batch pushed behind the buffer
flushSettledRequeueAtBack(pending, store, batch, ok) ==
    IF ok
    THEN [pendingLogs |-> pending, auditStore |-> store \o batch, rejected |-> FALSE]
    ELSE [pendingLogs |-> pending \o batch, auditStore |-> store, rejected |-> FALSE]

\* flushSettled without the catch: the store's error reaches the caller and
\* the batch is not put back
flushSettledUncaught(pending, store, batch, ok) ==
    IF ok
    THEN [pendingLogs |-> pending, auditStore |-> store \o batch, rejected |-> FALSE]
    ELSE [pendingLogs |-> pending, auditStore |-> store, rejected |-> TRUE]

\* flushLogs that gives up the batch of a write that failed
flushSettledDropFailed(pending, store, batch, ok) ==
    IF ok
    THEN [pendingLogs |-> pending, auditStore |-> store \o batch, rejected |-> FALSE]
    ELSE [pendingLogs |-> pending, auditStore |-> store, rejected |-> FALSE]

\* flushLogs from the moment db.auditLog.createMany settles: ok tells whether
\* the write resolved.  A written batch is in the store; a rejected one is
\* caught and put back in front of the buffer.  rejected tells whether
\* flushLogs hands the store's error on to its caller.
flushSettled(pending, store, batch, ok) ==
    IF ok
    THEN [pendingLogs |-> pending, auditStore |-> store \o batch, rejected |-> FALSE]
    ELSE [pendingLogs |-> batch \o pending, auditStore |-> store, rejected |-> FALSE]

---------------------------------------------------------------------------
(* AgentExecutor: previews *)

textKind(input) == IF Len(input) > 0 THEN "string" ELSE "empty"

analyzePluginActions(input) ==
    LET t == lower(input)
        githubKeywords ==
            {<<"simpan", "dataset">>, <<"save", "dataset">>, <<"github">>,
             <<"repository">>, <<"load", "dataset">>, <<"muat", "dataset">>,
             <<"list", "dataset">>, <<"daftar", "dataset">>,
             <<"delete", "dataset">>, <<"hapus", "dataset">>,
             <<"search", "dataset">>, <<"cari", "dataset">>}
        githubAction ==
            IF includes(t, <<"simpan">>) \/ includes(t, <<"save">>) THEN "save"
            ELSE IF includes(t, <<"muat">>) \/ includes(t, <<"load">>) THEN "load"
            ELSE IF includes(t, <<"hapus">>) \/ includes(t, <<"delete">>) THEN "delete"
            ELSE IF includes(t, <<"cari">>) \/ includes(t, <<"search">>) THEN "search"
            ELSE "list"
    IN  (IF includes(t, <<"ringkas">>) \/ includes(t, <<"summarize">>)
         THEN << [action |-> "pluginSummarizer", type |-> "plugin",
                  parameters |-> [text |-> textKind(input)],
                  requiresApproval |-> FALSE, estimatedImpact |-> "Low"] >>
         ELSE <<>>)
        \o
        (IF includes(t, <<"terjemah">>) \/ includes(t, <<"translate">>)
         THEN << [action |-> "pluginTranslator", type |-> "plugin",
                  parameters |-> [text |-> textKind(input)],
                  requiresApproval |-> FALSE, estimatedImpact |-> "Low"] >>
         ELSE <<>>)
        \o
        (IF \E kw \in githubKeywords : includes(t, kw)
         THEN << [action |-> "pluginGitHubStorage", type |-> "plugin",
                  parameters |-> [action |-> githubAction, input |-> textKind(input),
                                  config |-> "object"],
                  requiresApproval |-> FALSE, estimatedImpact |-> "Low"] >>
         ELSE <<>>)

\* analyzeCommitActions with one test per keyword instead of one per action:
\* a message holding both restart keywords yields restartAgent twice
analyzeCommitActionsPerKeyword(input) ==
    LET t == lower(input)
        restartAgent == [action |-> "restartAgent", type |-> "commit_api",
                         parameters |-> NoParams,
                         requiresApproval |-> TRUE, estimatedImpact |-> "High"]
    IN  (IF includes(t, <<"restart", "agent">>) THEN <<restartAgent>> ELSE <<>>)
        \o
        (IF includes(t, <<"restart">>) THEN <<restartAgent>> ELSE <<>>)
        \o
        (IF includes(t, <<"clear", "cache">>) \/ includes(t, <<"bersihkan", "cache">>)
         THEN << [action |-> "clearCache", type |-> "commit_api",
                  parameters |-> NoParams,
                  requiresApproval |-> TRUE, estimatedImpact |-> "Medium"] >>
         ELSE <<>>)

analyzeCommitActions(input) ==
    LET t == lower(input)
    IN  (IF includes(t, <<"restart", "agent">>) \/ includes(t, <<"restart", "sistem">>)
         THEN << [action |-> "restartAgent", type |-> "commit_api",
                  parameters |-> NoParams,
                  requiresApproval |-> TRUE, estimatedImpact |-> "High"] >>
         ELSE <<>>)
        \o
        (IF includes(t, <<"clear", "cache">>) \/ includes(t, <<"bersihkan", "cache">>)
         THEN << [action |-> "clearCache", type |-> "commit_api",
                  parameters |-> NoParams,
                  requiresApproval |-> TRUE, estimatedImpact |-> "Medium"] >>
         ELSE <<>>)

\* analyzeZhupiActions with updateMemory previewed as needing no approval
analyzeZhupiActionsUnflagged(input) ==
    LET t == lower(input)
    IN  (IF includes(t, <<"get", "persona">>) \/ includes(t, <<"lihat", "persona">>)
         THEN << [action |-> "getPersona", type |-> "zhupi_api",
                  parameters |-> NoParams,
                  requiresApproval |-> FALSE, estimatedImpact |-> "Low"] >>
         ELSE <<>>)
        \o
        (IF includes(t, <<"update", "memory">>) \/ includes(t, <<"perbarui", "memori">>)
         THEN << [action |-> "updateMemory", type |-> "zhupi_api",
                  parameters |-> [updates |-> "object"],
                  requiresApproval |-> FALSE, estimatedImpact |-> "Medium"] >>
         ELSE <<>>)

analyzeZhupiActions(input) ==
    LET t == lower(input)
    IN  (IF includes(t, <<"get", "persona">>) \/ includes(t, <<"lihat", "persona">>)
         THEN << [action |-> "getPersona", type |-> "zhupi_api",
                  parameters |-> NoParams,
                  requiresApproval |-> FALSE, estimatedImpact |-> "Low"] >>
         ELSE <<>>)
        \o
        (IF includes(t, <<"update", "memory">>) \/ includes(t, <<"perbarui", "memori">>)
         THEN << [action |-> "updateMemory", type |-> "zhupi_api",
                  parameters |-> [updates |-> "object"],
                  requiresApproval |-> TRUE, estimatedImpact |-> "Medium"] >>
         ELSE <<>>)

\* createPreview that leaves out the plugins the execution history shows as
\* having run
createPreviewUnlessRan(input) ==
    LET all == analyzePluginActions(input) \o analyzeCommitActions(input)
               \o analyzeZhupiActions(input)
        previews == SelectSeq(all, LAMBDA pv :
                        \A k \in 1..Len(executionHistory.plugin) :
                            executionHistory.plugin[k].name # pv.action)
    IN  [previews |-> previews,
         requiresApproval |-> \E k \in 1..Len(previews) : previews[k].requiresApproval]

\* createPreview that reports the flag of the first preview as the overall
\* flag
createPreviewFirstFlag(input) ==
    LET previews == analyzePluginActions(input) \o analyzeCommitActions(input)
                    \o analyzeZhupiActions(input)
    IN  [previews |-> previews,
         requiresApproval |-> Len(previews) > 0 /\ previews[1].requiresApproval]

createPreview(input) ==
    LET previews == analyzePluginActions(input) \o analyzeCommitActions(input)
                    \o analyzeZhupiActions(input)
    IN  [previews |-> previews,
         requiresApproval |-> \E k \in 1..Len(previews) : previews[k].requiresApproval]

---------------------------------------------------------------------------
(* AgentExecutor: execute *)

\* results.unshift in place of results.push
pushResultFront(results, r) == <<r>> \o results

\* results.push
pushResult(results, r) == Append(results, r)

unauthorizedResult(preview, executionId) ==
    [success |-> FALSE, action |-> preview.action,
     result |-> [error |-> "Unauthorized action"], executionId |-> executionId]

\* execLoop with the authorization checked once per batch: only the first
\* approved preview of the batch is checked
RECURSIVE execLoopCheckOnce(_, _, _, _)
execLoopCheckOnce(perms, log, r, executionId) ==
    IF r.idx > Len(r.previews)
    THEN [req |-> [r EXCEPT !.pc = "done", !.response = "executed"],
          permLog |-> log, checked |-> FALSE]
    ELSE LET preview == r.previews[r.idx]
         IN  IF ~arrayIncludes(r.approved, preview.action)
             THEN execLoopCheckOnce(perms, log, [r EXCEPT !.idx = @ + 1], executionId)
             ELSE IF Len(r.results) > 0
             THEN [req |-> [r EXCEPT !.pc = "dispatched"],
                   permLog |-> log, checked |-> FALSE]
             ELSE LET granted == isAuthorized(perms, preview.action, r.user)
                      log2 == logPermission(log, preview.action, r.user, granted)
                  IN  IF ~granted
                      THEN execLoopCheckOnce(perms, log2,
                              [r EXCEPT !.idx = @ + 1,
                                        !.results = Append(@,
                                            unauthorizedResult(preview, executionId))],
                              executionId)
                      ELSE [req |-> [r EXCEPT !.pc = "dispatched"],
                            permLog |-> log2, checked |-> TRUE]

\* execLoop without the test of approvedActions
RECURSIVE execLoopNoFilter(_, _, _, _)
execLoopNoFilter(perms, log, r, executionId) ==
    IF r.idx > Len(r.previews)
    THEN [req |-> [r EXCEPT !.pc = "done", !.response = "executed"],
          permLog |-> log, checked |-> FALSE]
    ELSE LET preview == r.previews[r.idx]
             granted == isAuthorized(perms, preview.action, r.user)
             log2 == logPermission(log, preview.action, r.user, granted)
         IN  IF ~granted
             THEN execLoopNoFilter(perms, log2,
                     [r EXCEPT !.idx = @ + 1,
                               !.results = Append(@,
                                   unauthorizedResult(preview, executionId))],
                     executionId)
             ELSE [req |-> [r EXCEPT !.pc = "dispatched"],
                   permLog |-> log2, checked |-> TRUE]

\* execLoop without the continue of the denied branch: the failed result is
\* pushed and the action is dispatched all the same
RECURSIVE execLoopNoContinue(_, _, _, _)
execLoopNoContinue(perms, log, r, executionId) ==
    IF r.idx > Len(r.previews)
    THEN [req |-> [r EXCEPT !.pc = "done", !.response = "executed"],
          permLog |-> log, checked |-> FALSE]
    ELSE LET preview == r.previews[r.idx]
         IN  IF ~arrayIncludes(r.approved, preview.action)
             THEN execLoopNoContinue(perms, log, [r EXCEPT !.idx = @ + 1], executionId)
             ELSE LET granted == isAuthorized(perms, preview.action, r.user)
                      log2 == logPermission(log, preview.action, r.user, granted)
                  IN  IF ~granted
                      THEN [req |-> [r EXCEPT !.pc = "dispatched",
                                              !.results = Append(@,
                                                  unauthorizedResult(preview, executionId))],
                            permLog |-> log2, checked |-> TRUE]
                      ELSE [req |-> [r EXCEPT !.pc = "dispatched"],
                            permLog |-> log2, checked |-> TRUE]

\* execLoop returning from execute at the first denied action
RECURSIVE execLoopAbortOnDenied(_, _, _, _)
execLoopAbortOnDenied(perms, log, r, executionId) ==
    IF r.idx > Len(r.previews)
    THEN [req |-> [r EXCEPT !.pc = "done", !.response = "executed"],
          permLog |-> log, checked |-> FALSE]
    ELSE LET preview == r.previews[r.idx]
         IN  IF ~arrayIncludes(r.approved, preview.action)
             THEN execLoopAbortOnDenied(perms, log, [r EXCEPT !.idx = @ + 1], executionId)
             ELSE LET granted == isAuthorized(perms, preview.action, r.user)
                      log2 == logPermission(log, preview.action, r.user, granted)
                  IN  IF ~granted
                      THEN [req |-> [r EXCEPT !.pc = "done", !.response = "executed",
                                              !.idx = @ + 1,
                                              !.results = Append(@,
                                                  unauthorizedResult(preview, executionId))],
                            permLog |-> log2, checked |-> FALSE]
                      ELSE [req |-> [r EXCEPT !.pc = "dispatched"],
                            permLog |-> log2, checked |-> TRUE]

\* The loop of execute from preview r.idx on, up to its next await: previews
\* that are not approved are skipped, a denied one gets its failed result, and
\* the first authorized one is dispatched (checked: isAuthorized was called
\* for it); past the last preview, execute returns.
RECURSIVE execLoop(_, _, _, _)
execLoop(perms, log, r, executionId) ==
    IF r.idx > Len(r.previews)
    THEN [req |-> [r EXCEPT !.pc = "done", !.response = "executed"],
          permLog |-> log, checked |-> FALSE]
    ELSE LET preview == r.previews[r.idx]
         IN  IF ~arrayIncludes(r.approved, preview.action)
             THEN execLoop(perms, log, [r EXCEPT !.idx = @ + 1], executionId)
             ELSE LET granted == isAuthorized(perms, preview.action, r.user)
                      log2 == logPermission(log, preview.action, r.user, granted)
                  IN  IF ~granted
                      THEN execLoop(perms, log2,
                              [r EXCEPT !.idx = @ + 1,
                                        !.results = pushResult(@,
                                            unauthorizedResult(preview, executionId))],
                              executionId)
                      ELSE [req |-> [r EXCEPT !.pc = "dispatched"],
                            permLog |-> log2, checked |-> TRUE]

executeInternalAction(action) ==
    IF action \in {"systemDiagnostic", "healthCheck"}
    THEN [thrown |-> FALSE, result |-> [success |-> TRUE, error |-> ""]]
    ELSE [thrown |-> TRUE, result |-> [error |-> "Unknown internal action"]]

\* the switch on preview.type: the capability's result, whether the switch
\* raised an error, and the executors' histories afterwards
dispatch(history, preview, threw) ==
    CASE preview.type = "plugin" ->
            LET o == executePlugin(history.plugin, preview.action, preview.parameters, threw)
            IN  [thrown |-> FALSE, result |-> o.result,
                 history |-> [history EXCEPT !.plugin = o.history]]
      [] preview.type = "commit_api" ->
            LET o == commitExecuteAction(history.commit, preview.action,
                                         preview.parameters, threw)
            IN  [thrown |-> FALSE, result |-> o.result,
                 history |-> [history EXCEPT !.commit = o.history]]
      [] preview.type = "zhupi_api" ->
            LET o == zhupiExecuteAction(history.zhupi, preview.action,
                                        preview.parameters, threw)
            IN  [thrown |-> FALSE, result |-> o.result,
                 history |-> [history EXCEPT !.zhupi = o.history]]
      [] preview.type = "internal" ->
            LET o == executeInternalAction(preview.action)
            IN  [thrown |-> o.thrown, result |-> o.result, history |-> history]
      [] OTHER ->
            [thrown |-> TRUE, result |-> [error |-> "Unknown action type"],
             history |-> history]

\* The ExecutionResult execute builds once the dispatch has come back: the try
\* branch when the switch returned, the catch branch when it raised.
executionResult(preview, out, executionId) ==
    IF ~out.thrown
    THEN [success |-> TRUE, action |-> preview.action, result |-> out.result,
          executionId |-> executionId]
    ELSE [success |-> FALSE, action |-> preview.action, result |-> out.result,
          executionId |-> executionId]

\* the audit record execute logs for that outcome
outcomeRecord(user, preview, out, executionId, ms, rnd) ==
    auditRecord(user, <<preview.action>>, "outcome",
                IF out.thrown THEN "false" ELSE "true", executionId, "", "", ms, rnd)

---------------------------------------------------------------------------
(* State *)

\* two chat requests may be in progress at once
Slots == {1, 2}

idleRequest ==
    [pc |-> "idle", user |-> "", input |-> <<>>, executeActions |-> FALSE,
     approved |-> <<>>, previews |-> <<>>, idx |-> 1, results |-> <<>>,
     response |-> ""]

\* no call of the gate yet
noCall ==
    [op |-> "none", user |-> "", what |-> "", by |-> "", result |-> FALSE,
     before |-> initializePermissions, checks |-> 0]

\* no response of the modular plugin route yet
noResponse == [success |-> FALSE, error |-> "none"]

DefaultBackupInterval == 24
DefaultMaxBackups == 10

\* the config the constructor of GitHubConnector sets; lastConnected is <<>>
\* while it is undefined, and <<t>> when it is the date t
connectorDefaults ==
    [username |-> "odarkserver", token |-> "", repository |-> "ai-dataset-storage",
     branch |-> "main", autoSetup |-> TRUE, isConfigured |-> FALSE,
     lastConnected |-> <<>>]

\* the config the constructor of DatabaseManager sets
defaultConfig ==
    [autoBackup |-> TRUE, backupInterval |-> DefaultBackupInterval,
     maxBackups |-> DefaultMaxBackups]

Init ==
    /\ permissions = initializePermissions
    /\ permLog = <<>>
    /\ pendingLogs = <<>>
    /\ flushing = <<>>
    /\ auditStore = <<>>
    /\ executionHistory = [plugin |-> <<>>, commit |-> <<>>, zhupi |-> <<>>]
    /\ reqs = [i \in Slots |-> idleRequest]
    /\ invocations = {}
    /\ adminCalls = 0
    /\ routeCalls = 0
    /\ lastCall = noCall
    /\ routeResponse = noResponse
    /\ returned = {}
    /\ raised = {}
    /\ now = 0
    /\ logged = <<>>
    /\ previewed = <<>>
    /\ shellCommand = <<>>
    /\ shellAudit = <<>>
    /\ shellCalls = <<>>
    /\ shellRuns = <<>>
    /\ dbManager = [config |-> defaultConfig, backupTimer |-> 0]
    /\ intervals = [made |-> 0, active |-> {}, since |-> [timer \in {} |-> 0]]
    /\ savedConfig = [f \in {} |-> 0]
    /\ databaseBackup = <<>>
    /\ backupCalls = <<>>
    /\ connector = [config |-> connectorDefaults]
    /\ connectorConfig = [f \in {} |-> 0]
    /\ connectCalls = <<>>

---------------------------------------------------------------------------
(* POST /api/chat *)

\* The handler up to the first await that matters: the preview is built and
\* the request is answered with the preview, handed to execute (which logs
\* execution_start), or processed as chat (aiOk: the model call succeeded).
\* The ids of the records of a request differ by the clock only: the draw of
\* Math.random() is 0 in all of them.
ChatPost(i, userId, message, executeActions, approvedActions, aiOk) ==
    /\ reqs[i].pc = "idle"
    /\ \A j \in Slots : j < i => reqs[j].pc # "idle"
    /\ LET pv == createPreview(message)
           started == [reqs[i] EXCEPT !.user = userId, !.input = message,
                                      !.executeActions = executeActions,
                                      !.approved = approvedActions,
                                      !.previews = pv.previews]
       IN  IF pv.requiresApproval /\ ~executeActions
           THEN LET rec == auditRecord(userId, <<"preview_requested">>, "preview",
                                       "undefined", 0, "chat", "info", now, 0)
                    l == logAction(pendingLogs, flushing, rec)
                IN  /\ reqs' = [reqs EXCEPT ![i] =
                                  [started EXCEPT !.pc = "done", !.response = "preview"]]
                    /\ pendingLogs' = l.pendingLogs
                    /\ flushing' = l.flushing
                    /\ logged' = Append(logged, rec)
           ELSE IF executeActions /\ Len(approvedActions) > 0
           THEN LET rec == auditRecord(userId, message, "execution_start",
                                       "undefined", i, "", "", now, 0)
                    l == logAction(pendingLogs, flushing, rec)
                IN  /\ reqs' = [reqs EXCEPT ![i] = [started EXCEPT !.pc = "loop"]]
                    /\ pendingLogs' = l.pendingLogs
                    /\ flushing' = l.flushing
                    /\ logged' = Append(logged, rec)
           ELSE LET rec == auditRecord(userId, <<"chat">>, "chat",
                                       "undefined", 0, "", "", now, 0)
                    l == logAction(pendingLogs, flushing, rec)
                IN  /\ reqs' = [reqs EXCEPT ![i] =
                                  [started EXCEPT !.pc = "done", !.response = "chat"]]
                    /\ pendingLogs' = IF aiOk THEN l.pendingLogs ELSE pendingLogs
                    /\ flushing' = IF aiOk THEN l.flushing ELSE flushing
                    /\ logged' = IF aiOk THEN Append(logged, rec) ELSE logged
    /\ UNCHANGED <<permissions, permLog, auditStore, executionHistory,
                   invocations, adminCalls, routeCalls,
                   lastCall, routeResponse, returned,
                   raised, now, previewed,
                   shellVars, managerVars, connectorVars>>

\* execute resumes its loop
ExecuteLoop(i) ==
    /\ reqs[i].pc = "loop"
    /\ LET out == execLoop(permissions, permLog, reqs[i], i)
           r == out.req
       IN  /\ reqs' = [reqs EXCEPT ![i] = r]
           /\ permLog' = out.permLog
           /\ invocations' =
                IF r.pc = "dispatched"
                THEN invocations \cup
                        {[via |-> "execute", req |-> i, idx |-> r.idx,
                          user |-> r.user, action |-> r.previews[r.idx].action,
                          checked |-> out.checked,
                          permitted |-> /\ r.user \in DOMAIN permissions
                                        /\ r.previews[r.idx].action \in permissions[r.user]]}
                ELSE invocations
    /\ UNCHANGED <<permissions, pendingLogs, flushing, auditStore,
                   executionHistory, adminCalls, routeCalls,
                   lastCall, routeResponse, returned,
                   raised, now, previewed, logged,
                   shellVars, managerVars, connectorVars>>

\* the dispatched capability comes back; execute pushes the result and logs it
CapabilityReturns(i, threw) ==
    /\ reqs[i].pc = "dispatched"
    /\ LET r == reqs[i]
           preview == r.previews[r.idx]
           out == dispatch(executionHistory, preview, threw)
           rec == outcomeRecord(r.user, preview, out, i, now, 0)
           l == logAction(pendingLogs, flushing, rec)
       IN  /\ reqs' = [reqs EXCEPT ![i] =
                         [r EXCEPT !.pc = "loop", !.idx = @ + 1,
                                   !.results = pushResult(@, executionResult(preview, out, i))]]
           /\ executionHistory' = out.history
           /\ pendingLogs' = l.pendingLogs
           /\ flushing' = l.flushing
           /\ logged' = Append(logged, rec)
    /\ UNCHANGED <<permissions, permLog, auditStore, invocations, adminCalls, routeCalls,
                   lastCall, routeResponse, returned,
                   raised, now, previewed,
                   shellVars, managerVars, connectorVars>>

---------------------------------------------------------------------------
(* POST of the modular plugin route: executePlugin on the caller's plugin   *)
(* name and parameters                                                     *)

ModularRoutePost(pluginName, pluginParams, threw) ==
    /\ LET o == executePlugin(executionHistory.plugin, pluginName, pluginParams, threw)
       IN  /\ executionHistory' = [executionHistory EXCEPT !.plugin = o.history]
           /\ routeResponse' = o.result
    /\ invocations' = invocations \cup
            {[via |-> "modular_route", req |-> 0, idx |-> routeCalls + 1,
              user |-> "", action |-> pluginName,
              checked |-> FALSE, permitted |-> FALSE]}
    /\ routeCalls' = routeCalls + 1
    /\ UNCHANGED <<permissions, permLog, pendingLogs, flushing, auditStore,
                   reqs, adminCalls,
                   lastCall, returned,
                   raised, now, previewed, logged,
                   shellVars, managerVars, connectorVars>>

---------------------------------------------------------------------------
(* Permission administration *)

\* The record of a call of the gate: its arguments, what it returned, the
\* permission table and the length of the check log it found.  The four
\* administration actions leave lastCall to the specification: it records the
\* call where the caller looks at what the call returned.
gateCall(op, user, what, by, result) ==
    [op |-> op, user |-> user, what |-> what, by |-> by, result |-> result,
     before |-> permissions, checks |-> Len(permLog)]

GrantPermission(user, action, grantedBy) ==
    /\ permissions' = grantPermission(permissions, user, action, grantedBy).permissions
    /\ adminCalls' = adminCalls + 1
    /\ UNCHANGED <<permLog, pendingLogs, flushing, auditStore, executionHistory,
                   reqs, invocations, routeCalls, routeResponse, returned,
                   raised, now, previewed, logged,
                   shellVars, managerVars, connectorVars>>

RevokePermission(user, action, revokedBy) ==
    /\ permissions' = revokePermission(permissions, user, action, revokedBy).permissions
    /\ adminCalls' = adminCalls + 1
    /\ UNCHANGED <<permLog, pendingLogs, flushing, auditStore, executionHistory,
                   reqs, invocations, routeCalls, routeResponse, returned,
                   raised, now, previewed, logged,
                   shellVars, managerVars, connectorVars>>

AssignRole(user, role, assignedBy) ==
    /\ permissions' = assignRole(permissions, user, role, assignedBy).permissions
    /\ adminCalls' = adminCalls + 1
    /\ UNCHANGED <<permLog, pendingLogs, flushing, auditStore, executionHistory,
                   reqs, invocations, routeCalls, routeResponse, returned,
                   raised, now, previewed, logged,
                   shellVars, managerVars, connectorVars>>

ImportPermissions(data, importedBy) ==
    /\ permissions' = importPermissions(permissions, data, importedBy).permissions
    /\ adminCalls' = adminCalls + 1
    /\ UNCHANGED <<permLog, pendingLogs, flushing, auditStore, executionHistory,
                   reqs, invocations, routeCalls, routeResponse, returned,
                   raised, now, previewed, logged,
                   shellVars, managerVars, connectorVars>>

\* a direct call of hasRole
HasRoleCall(user, role) ==
    /\ lastCall' = gateCall("hasRole", user, role, "", hasRole(permissions, user, role))
    /\ UNCHANGED <<permissions, permLog, pendingLogs, flushing, auditStore,
                   executionHistory, reqs, invocations, adminCalls, routeCalls,
                   routeResponse, returned,
                   raised, now, previewed, logged,
                   shellVars, managerVars, connectorVars>>

\* a direct call of isAuthorized
IsAuthorizedCall(action, user) ==
    /\ LET granted == isAuthorized(permissions, action, user)
       IN  /\ permLog' = logPermission(permLog, action, user, granted)
           /\ lastCall' = gateCall("isAuthorized", user, action, "", granted)
    /\ UNCHANGED <<permissions, pendingLogs, flushing, auditStore,
                   executionHistory, reqs, invocations, adminCalls, routeCalls,
                   routeResponse, returned,
                   raised, now, previewed, logged,
                   shellVars, managerVars, connectorVars>>

---------------------------------------------------------------------------
(* AuditLogger: the flush timer and the batched store write *)

\* the setInterval callback
FlushTimer ==
    /\ Len(pendingLogs) > 0
    /\ LET f == flushLogs(pendingLogs, flushing)
       IN  /\ pendingLogs' = f.pendingLogs
           /\ flushing' = f.flushing
    /\ UNCHANGED <<permissions, permLog, auditStore, executionHistory, reqs,
                   invocations, adminCalls, routeCalls,
                   lastCall, routeResponse, returned,
                   raised, now, previewed, logged,
                   shellVars, managerVars, connectorVars>>

Range(seq) == {seq[k] : k \in 1..Len(seq)}

removeAt(seq, k) == SubSeq(seq, 1, k - 1) \o SubSeq(seq, k + 1, Len(seq))

\* the records of a batch whose logAction call awaits the write: logAction
\* awaits flushLogs for an error or critical record only
awaited(batch) ==
    {batch[j] : j \in {n \in 1..Len(batch) : batch[n].level \in {"critical", "error"}}}

\* db.auditLog.createMany of batch k resolves
FlushWritten(k) ==
    /\ k \in 1..Len(flushing)
    /\ LET f == flushSettled(pendingLogs, auditStore, flushing[k], TRUE)
       IN  /\ pendingLogs' = f.pendingLogs
           /\ auditStore' = f.auditStore
           /\ returned' = IF f.rejected THEN returned
                           ELSE returned \cup awaited(flushing[k])
           /\ raised' = IF f.rejected THEN raised \cup Range(flushing[k]) ELSE raised
    /\ flushing' = removeAt(flushing, k)
    /\ UNCHANGED <<permissions, permLog, executionHistory, reqs,
                   invocations, adminCalls, routeCalls,
                   lastCall, routeResponse, now, previewed, logged,
                   shellVars, managerVars, connectorVars>>

\* db.auditLog.createMany of batch k rejects
FlushFailed(k) ==
    /\ k \in 1..Len(flushing)
    /\ LET f == flushSettled(pendingLogs, auditStore, flushing[k], FALSE)
       IN  /\ pendingLogs' = f.pendingLogs
           /\ auditStore' = f.auditStore
           /\ returned' = IF f.rejected THEN returned
                           ELSE returned \cup awaited(flushing[k])
           /\ raised' = IF f.rejected THEN raised \cup Range(flushing[k]) ELSE raised
    /\ flushing' = removeAt(flushing, k)
    /\ UNCHANGED <<permissions, permLog, executionHistory, reqs,
                   invocations, adminCalls, routeCalls,
                   lastCall, routeResponse, now, previewed, logged,
                   shellVars, managerVars, connectorVars>>

\* logSecurityEvent up to the await of the flush; rnd is the draw of
\* Math.random() for the id
LogSecurityEvent(actor, level, rnd) ==
    /\ LET rec == auditRecord(actor, <<"security_event">>, "security_event",
                              "undefined", 0, "security", level, now, rnd)
           l == logAction(pendingLogs, flushing, rec)
       IN  /\ pendingLogs' = l.pendingLogs
           /\ flushing' = l.flushing
           /\ logged' = Append(logged, rec)
    /\ UNCHANGED <<permissions, permLog, auditStore, executionHistory, reqs,
                   invocations, adminCalls, routeCalls,
                   lastCall, routeResponse, returned,
                   raised, now, previewed,
                   shellVars, managerVars, connectorVars>>

\* a millisecond passes
Tick ==
    /\ now' = now + 1
    /\ UNCHANGED <<permissions, permLog, pendingLogs, flushing, auditStore,
                   executionHistory, reqs, invocations, adminCalls, routeCalls,
                   lastCall, routeResponse, returned, raised, logged, previewed,
                   shellVars, managerVars, connectorVars>>

\* cleanupOldLogs: db.auditLog.deleteMany of the rows whose timestamp is
\* before the cutoff, daysToKeep units of the clock back from now
cleanupOldLogs(store, daysToKeep, ms) ==
    SelectSeq(store, LAMBDA rec : ~(rec.timestamp + daysToKeep < ms))

CleanupOldLogs(daysToKeep) ==
    /\ auditStore' = cleanupOldLogs(auditStore, daysToKeep, now)
    /\ UNCHANGED <<permissions, permLog, pendingLogs, flushing, executionHistory,
                   reqs, invocations, adminCalls, routeCalls, lastCall,
                   routeResponse, returned, raised, now, logged, previewed,
                   shellVars, managerVars, connectorVars>>

---------------------------------------------------------------------------
(* Direct calls of AgentExecutor.createPreview and of                      *)
(* PermissionGate.requiresApproval                                         *)

CreatePreviewCall(input) ==
    /\ previewed' = Append(previewed,
            [input |-> input, previews |-> createPreview(input).previews,
             requiresApproval |-> createPreview(input).requiresApproval])
    /\ UNCHANGED <<permissions, permLog, pendingLogs, flushing, auditStore,
                   executionHistory, reqs, invocations, adminCalls, routeCalls,
                   lastCall, routeResponse, returned, raised, now, logged,
                   shellVars, managerVars, connectorVars>>

RequiresApprovalCall(action) ==
    /\ lastCall' = gateCall("requiresApproval", "", action, "", requiresApproval(action))
    /\ UNCHANGED <<permissions, permLog, pendingLogs, flushing, auditStore,
                   executionHistory, reqs, invocations, adminCalls, routeCalls,
                   routeResponse, returned, raised, now, logged, previewed,
                   shellVars, managerVars, connectorVars>>

---------------------------------------------------------------------------
(* ShellAuditService and the shell route.  A command is a sequence of      *)
(* words; the blocked substrings are matched word by word, and no input    *)
(* has a word that holds a blocked substring inside.  The reads and writes *)
(* of the database succeed; a step that writes a row also writes the audit *)
(* row that follows it in the code.                                        *)

dangerousCommands ==
    {<<"rm", "-rf">>, <<"sudo", "rm">>, <<"format">>, <<"del", "/f">>,
     <<"shutdown">>, <<"reboot">>, <<"passwd">>, <<"sudo", "su">>,
     <<"chmod", "777">>, <<"chown">>, <<"dd", "if=">>, <<"mkfs">>, <<"fdisk">>,
     <<"iptables">>, <<"crontab">>, <<"systemctl">>, <<"service">>,
     <<"killall">>, <<"pkill">>}

\* 'su ' and 'init ': the word followed by a blank, so not the last word
dangerousBeforeBlank == {"su", "init"}

allowedSystemCommands ==
    {"ls", "ps", "whoami", "pwd", "date", "uptime", "df", "free", "uname"}

allowedFileCommands ==
    {"cat", "echo", "mkdir", "touch", "head", "tail", "grep", "find"}

allowedNetworkCommands == {"ping", "curl", "wget", "nslookup", "dig"}

containsDangerous(command) ==
    \/ \E dangerous \in dangerousCommands : includes(lower(command), dangerous)
    \/ \E k \in 1..(Len(command) - 1) : toLowerCase(command[k]) \in dangerousBeforeBlank

\* command.split(' ')[0]
commandStart(command) == IF Len(command) > 0 THEN command[1] ELSE ""

validateCommand(command, type) ==
    IF containsDangerous(command) THEN [safe |-> FALSE, reason |-> "dangerous"]
    ELSE CASE type = "system" /\ commandStart(command) \notin allowedSystemCommands ->
                [safe |-> FALSE, reason |-> "not allowed"]
           [] type = "file" /\ commandStart(command) \notin allowedFileCommands ->
                [safe |-> FALSE, reason |-> "not allowed"]
           [] type = "network" /\ commandStart(command) \notin allowedNetworkCommands ->
                [safe |-> FALSE, reason |-> "not allowed"]
           [] type = "database" -> [safe |-> FALSE, reason |-> "database"]
           [] OTHER -> [safe |-> TRUE, reason |-> ""]

\* createAuditLog
createAuditLog(audit, commandId, action, status) ==
    Append(audit, [commandId |-> commandId, action |-> action, status |-> status])

noRow == [command |-> <<>>, type |-> "", status |-> "none", executedBy |-> ""]

shellCall(op, pc, commandId, by, found, row, status) ==
    [op |-> op, pc |-> pc, commandId |-> commandId, by |-> by,
     found |-> found, row |-> row, status |-> status]

\* POST action 'execute': executeCommand(command, type || 'system',
\* 'ODARK-User', sessionId, false)
ShellExecute(command, type) ==
    LET t == IF type = "undefined" THEN "system" ELSE type
        id == Len(shellCommand) + 1
    IN  IF command = <<>>
        THEN /\ shellCalls' = Append(shellCalls,
                    shellCall("execute", "failed", 0, "ODARK-User", noRow, 0, "400"))
             /\ UNCHANGED <<shellCommand, shellAudit, managerVars, connectorVars>>
        ELSE IF ~validateCommand(command, t).safe
        THEN /\ shellCalls' = Append(shellCalls,
                    shellCall("execute", "failed", 0, "ODARK-User", noRow, 0, "500"))
             /\ UNCHANGED <<shellCommand, shellAudit, managerVars, connectorVars>>
        ELSE /\ shellCommand' = Append(shellCommand,
                    [command |-> command, type |-> t, status |-> "pending",
                     executedBy |-> "ODARK-User"])
             /\ shellAudit' = createAuditLog(shellAudit, id, "command_execute", "pending")
             /\ shellCalls' = Append(shellCalls,
                    shellCall("execute", "done", 0, "ODARK-User", noRow, id, "pending"))

\* approveCommand / rejectCommand up to the answer of findUnique
ShellFind(op, commandId, by) ==
    shellCalls' = Append(shellCalls,
        shellCall(op, "found", commandId, by,
                  IF commandId \in DOMAIN shellCommand THEN shellCommand[commandId] ELSE noRow,
                  0, ""))

\* the status test on the row that was found, and the update of the row
ShellUpdate(c, status) ==
    LET call == shellCalls[c]
    IN  IF call.found.status # "pending"
        THEN /\ shellAudit' = createAuditLog(shellAudit, call.commandId,
                                    IF call.op = "approve" THEN "command_approve"
                                    ELSE "command_reject", "failed")
             /\ shellCalls' = [shellCalls EXCEPT ![c].pc = "failed", ![c].status = "500"]
             /\ UNCHANGED shellCommand
        ELSE /\ shellCommand' = [shellCommand EXCEPT ![call.commandId].status = status,
                                                     ![call.commandId].executedBy = call.by]
             /\ shellAudit' = createAuditLog(shellAudit, call.commandId,
                                    IF call.op = "approve" THEN "command_approve"
                                    ELSE "command_reject", "success")
             /\ shellCalls' = [shellCalls EXCEPT
                                    ![c].pc = IF call.op = "approve" THEN "updated" ELSE "done",
                                    ![c].status = IF call.op = "approve" THEN "" ELSE "rejected"]

otherVars ==
    <<permissions, permLog, pendingLogs, flushing, auditStore, executionHistory,
      reqs, invocations, adminCalls, routeCalls, lastCall, routeResponse,
      returned, raised, now, logged, previewed>>

ShellPostExecute(command, type) ==
    /\ ShellExecute(command, type)
    /\ UNCHANGED <<shellRuns, otherVars, managerVars, connectorVars>>

ShellPostApprove(commandId, approvedBy) ==
    /\ ShellFind("approve", commandId, approvedBy)
    /\ UNCHANGED <<shellCommand, shellAudit, shellRuns, otherVars, managerVars, connectorVars>>

ApproveUpdates(c) ==
    /\ c \in DOMAIN shellCalls
    /\ shellCalls[c].op = "approve" /\ shellCalls[c].pc = "found"
    /\ ShellUpdate(c, "approved")
    /\ UNCHANGED <<shellRuns, otherVars, managerVars, connectorVars>>

\* approveCommand goes on to executeCommand(command.command, command.type,
\* approvedBy, sessionId, true), up to the row and the audit row it creates
ApproveExecutes(c) ==
    /\ c \in DOMAIN shellCalls
    /\ shellCalls[c].op = "approve" /\ shellCalls[c].pc = "updated"
    /\ LET call == shellCalls[c]
           id == Len(shellCommand) + 1
       IN  IF ~validateCommand(call.found.command, call.found.type).safe
           THEN /\ shellAudit' = createAuditLog(shellAudit, call.commandId,
                                                "command_approve", "failed")
                /\ shellCalls' = [shellCalls EXCEPT ![c].pc = "failed", ![c].status = "500"]
                /\ UNCHANGED shellCommand
           ELSE /\ shellCommand' = Append(shellCommand,
                        [command |-> call.found.command, type |-> call.found.type,
                         status |-> "approved", executedBy |-> call.by])
                /\ shellAudit' = createAuditLog(shellAudit, id, "command_execute", "pending")
                /\ shellCalls' = [shellCalls EXCEPT ![c].pc = "created", ![c].row = id]
    /\ UNCHANGED <<shellRuns, otherVars, managerVars, connectorVars>>

\* execAsync ran the command and settled (ok), or failed or timed out; the
\* row executeCommand created is updated
CommandSettles(c, ok) ==
    /\ c \in DOMAIN shellCalls
    /\ shellCalls[c].op = "approve" /\ shellCalls[c].pc = "created"
    /\ LET call == shellCalls[c]
       IN  /\ shellRuns' = Append(shellRuns,
                    [command |-> call.found.command, type |-> call.found.type,
                     row |-> call.row, commandId |-> call.commandId,
                     autoApprove |-> TRUE, ok |-> ok])
           /\ shellCommand' = [shellCommand EXCEPT
                    ![call.row].status = IF ok THEN "executed" ELSE "failed"]
           /\ shellAudit' =
                IF ok THEN createAuditLog(shellAudit, call.row, "command_execute", "success")
                ELSE createAuditLog(
                        createAuditLog(shellAudit, call.row, "command_execute", "failed"),
                        call.commandId, "command_approve", "failed")
           /\ shellCalls' = [shellCalls EXCEPT
                    ![c].pc = IF ok THEN "done" ELSE "failed",
                    ![c].status = IF ok THEN "executed" ELSE "500"]
    /\ UNCHANGED <<otherVars, managerVars, connectorVars>>

ShellPostReject(commandId, rejectedBy) ==
    /\ ShellFind("reject", commandId, rejectedBy)
    /\ UNCHANGED <<shellCommand, shellAudit, shellRuns, otherVars, managerVars, connectorVars>>

RejectUpdates(c) ==
    /\ c \in DOMAIN shellCalls
    /\ shellCalls[c].op = "reject" /\ shellCalls[c].pc = "found"
    /\ ShellUpdate(c, "rejected")
    /\ UNCHANGED <<shellRuns, otherVars, managerVars, connectorVars>>

---------------------------------------------------------------------------
(* DatabaseManager, as pluginDatabaseManager calls it: initialize at the   *)
(* start of every invocation, then the action.  The reads and writes of    *)
(* the database succeed, except the delete of a row that is gone.          *)

\* { ...this.config, ...config }
mergeConfig(config, partial) ==
    [f \in DOMAIN config |-> IF f \in DOMAIN partial THEN partial[f] ELSE config[f]]

\* clearInterval: the timer of the handle, if any, is no longer active
clearInterval(timers, handle) ==
    [timers EXCEPT !.active = @ \ {handle},
                   !.since = [timer \in (DOMAIN @) \ {handle} |-> @[timer]]]

\* startAutoBackup: setInterval makes a timer, whose interval starts now,
\* and backupTimer holds it
startAutoBackup(manager, timers) ==
    [dbManager |-> [manager EXCEPT !.backupTimer = timers.made + 1],
     intervals |-> [made |-> timers.made + 1,
                    active |-> timers.active \cup {timers.made + 1},
                    since |-> [timer \in timers.active \cup {timers.made + 1} |->
                                IF timer \in timers.active THEN timers.since[timer]
                                ELSE now]]]

\* initialize: loadConfig, then startAutoBackup when autoBackup is set
initialize(manager, timers, saved) ==
    LET loaded == [manager EXCEPT !.config = mergeConfig(@, saved)]
    IN  IF loaded.config.autoBackup
        THEN startAutoBackup(loaded, timers)
        ELSE [dbManager |-> loaded, intervals |-> timers]

\* setup: merge and save the config, clearInterval on the timer held, then
\* startAutoBackup when autoBackup is set
setup(manager, timers, partial) ==
    LET merged == [manager EXCEPT !.config = mergeConfig(@, partial)]
        cleared == clearInterval(timers, manager.backupTimer)
        started == IF merged.config.autoBackup
                   THEN startAutoBackup(merged, cleared)
                   ELSE [dbManager |-> merged, intervals |-> cleared]
    IN  [dbManager |-> started.dbManager, intervals |-> started.intervals,
         savedConfig |-> merged.config]

\* backupDatabase up to the row it creates; a row's id is the position of
\* the call in backupCalls
createBackup(type) ==
    /\ databaseBackup' = Append(databaseBackup,
            [id |-> Len(backupCalls) + 1, timestamp |-> now, type |-> type])
    /\ backupCalls' = Append(backupCalls,
            [type |-> type, pc |-> "created",
             row |-> [id |-> Len(backupCalls) + 1, timestamp |-> now, type |-> type],
             toDelete |-> <<>>, maxBackups |-> 0])

\* pluginDatabaseManager with action setup
ManagerSetup(partial) ==
    /\ LET ready == initialize(dbManager, intervals, savedConfig)
           done == setup(ready.dbManager, ready.intervals, partial)
       IN  /\ dbManager' = done.dbManager
           /\ intervals' = done.intervals
           /\ savedConfig' = done.savedConfig
    /\ UNCHANGED <<databaseBackup, backupCalls, otherVars, shellVars,
                   connectorVars>>

\* pluginDatabaseManager with an action that only reads (list, stats)
ManagerReads ==
    /\ LET ready == initialize(dbManager, intervals, savedConfig)
       IN  /\ dbManager' = ready.dbManager
           /\ intervals' = ready.intervals
    /\ UNCHANGED <<savedConfig, databaseBackup, backupCalls, otherVars, shellVars,
                   connectorVars>>

\* pluginDatabaseManager with action backup
ManagerBackup ==
    /\ LET ready == initialize(dbManager, intervals, savedConfig)
       IN  /\ dbManager' = ready.dbManager
           /\ intervals' = ready.intervals
    /\ createBackup("manual")
    /\ UNCHANGED <<savedConfig, otherVars, shellVars,
                   connectorVars>>

\* an active timer fires, its interval over: backupDatabase('auto')
BackupTimerFires(timer) ==
    /\ timer \in intervals.active
    /\ now > intervals.since[timer]
    /\ intervals' = [intervals EXCEPT !.since[timer] = now]
    /\ createBackup("auto")
    /\ UNCHANGED <<dbManager, savedConfig, otherVars, shellVars,
                   connectorVars>>

\* the orders findMany may give the rows in: by timestamp, latest first
latestFirst(rows) ==
    {order \in [1..Len(rows) -> 1..Len(rows)] :
        /\ \A k, l \in 1..Len(rows) : k # l => order[k] # order[l]
        /\ \A k, l \in 1..Len(rows) :
                k < l => rows[order[k]].timestamp >= rows[order[l]].timestamp}

\* backups.slice(maxBackups)
sliceFrom(seq, n) == IF n >= Len(seq) THEN <<>> ELSE SubSeq(seq, n + 1, Len(seq))

\* the table without the row of the id
deleteRow(rows, id) == SelectSeq(rows, LAMBDA row : row.id # id)

\* cleanupOldBackups up to the answer of findMany: the rows beyond
\* maxBackups are to be deleted; with none, backupDatabase returns
BackupListed(c) ==
    /\ c \in DOMAIN backupCalls
    /\ backupCalls[c].pc = "created"
    /\ \E order \in latestFirst(databaseBackup) :
            LET backups == [k \in 1..Len(databaseBackup) |-> databaseBackup[order[k]]]
                toDelete == sliceFrom(backups, dbManager.config.maxBackups)
            IN  backupCalls' = [backupCalls EXCEPT
                    ![c].pc = IF toDelete = <<>> THEN "done" ELSE "deleting",
                    ![c].toDelete = toDelete,
                    ![c].maxBackups = dbManager.config.maxBackups]
    /\ UNCHANGED <<dbManager, intervals, savedConfig, databaseBackup, otherVars, shellVars,
                   connectorVars>>

\* the next delete of cleanupOldBackups: the delete of a row that is gone
\* throws, which ends the cleanup; after the cleanup backupDatabase returns
BackupDeletes(c) ==
    /\ c \in DOMAIN backupCalls
    /\ backupCalls[c].pc = "deleting"
    /\ LET call == backupCalls[c]
           id == Head(call.toDelete).id
           found == \E k \in 1..Len(databaseBackup) : databaseBackup[k].id = id
           rest == IF found THEN Tail(call.toDelete) ELSE <<>>
       IN  /\ databaseBackup' = deleteRow(databaseBackup, id)
           /\ backupCalls' = [backupCalls EXCEPT
                    ![c].pc = IF rest = <<>> THEN "done" ELSE "deleting",
                    ![c].toDelete = rest]
    /\ UNCHANGED <<dbManager, intervals, savedConfig, otherVars, shellVars,
                   connectorVars>>

---------------------------------------------------------------------------
(* GitHubConnector.connectWithToken, one step for each answer it awaits:   *)
(* of GET /user, of the upsert of the config row, of the repository setup  *)
(* and of the connection test                                              *)

\* const { token, ...safeConfig } = this.config
safeConfig(config) == [f \in (DOMAIN config) \ {"token"} |-> config[f]]

\* the calls so far are no longer the only ones at work on the connector
disturbed(calls) == [c \in DOMAIN calls |-> [calls[c] EXCEPT !.undisturbed = FALSE]]

\* connectWithToken up to the fetch of validateToken
ConnectWithToken(token, repository) ==
    /\ connectCalls' = Append(disturbed(connectCalls),
            [token |-> token, repository |-> repository, pc |-> "validating",
             success |-> FALSE, action |-> "",
             undisturbed |-> \A c \in DOMAIN connectCalls : connectCalls[c].pc = "done",
             before |-> [config |-> connector.config, saved |-> connectorConfig],
             safeConfig |-> safeConfig(connector.config)])
    /\ UNCHANGED <<connector, connectorConfig, otherVars, shellVars, managerVars>>

\* connectWithToken returns the result of a step that failed
connectFails(c, action) ==
    [connectCalls EXCEPT ![c].pc = "done", ![c].success = FALSE, ![c].action = action]

\* testConnection up to its fetch: without isConfigured it fails at once
testConnectionStarts(c) ==
    IF connector.config.isConfigured
    THEN [connectCalls EXCEPT ![c].pc = "testing"]
    ELSE connectFails(c, "test_connection")

\* GET /user answers: unless the token is valid and the login odarkserver,
\* connectWithToken returns validateToken's result; otherwise it sets the
\* config and calls saveConfig, which leaves the token out of what it writes
TokenValidated(c, answer) ==
    /\ c \in DOMAIN connectCalls
    /\ connectCalls[c].pc = "validating"
    /\ IF answer # "odarkserver"
       THEN /\ connectCalls' = connectFails(c, "validate_token")
            /\ UNCHANGED connector
       ELSE LET call == connectCalls[c]
                config == [connector.config EXCEPT
                             !.token = call.token,
                             !.repository = IF call.repository \in {"undefined", ""}
                                            THEN "ai-dataset-storage"
                                            ELSE call.repository,
                             !.isConfigured = TRUE,
                             !.lastConnected = <<now>>]
            IN  /\ connector' = [connector EXCEPT !.config = config]
                /\ connectCalls' = [connectCalls EXCEPT
                        ![c].pc = "saving", ![c].safeConfig = safeConfig(config)]
    /\ UNCHANGED <<connectorConfig, otherVars, shellVars, managerVars>>

\* the upsert of saveConfig answers, an error being logged only; then
\* autoSetupRepository when autoSetup is set, else testConnection
ConfigSaved(c, ok) ==
    /\ c \in DOMAIN connectCalls
    /\ connectCalls[c].pc = "saving"
    /\ connectorConfig' = IF ok THEN connectCalls[c].safeConfig ELSE connectorConfig
    /\ connectCalls' = IF connector.config.autoSetup
                       THEN [connectCalls EXCEPT ![c].pc = "setup"]
                       ELSE testConnectionStarts(c)
    /\ UNCHANGED <<connector, otherVars, shellVars, managerVars>>

\* autoSetupRepository answers: its failure is what connectWithToken
\* returns; after its success testConnection is called
RepositorySetUp(c, ok) ==
    /\ c \in DOMAIN connectCalls
    /\ connectCalls[c].pc = "setup"
    /\ connectCalls' = IF ok THEN testConnectionStarts(c)
                       ELSE connectFails(c, "auto_setup_repository")
    /\ UNCHANGED <<connector, connectorConfig, otherVars, shellVars, managerVars>>

\* the fetch of testConnection answers, and connectWithToken returns
ConnectionTested(c, ok) ==
    /\ c \in DOMAIN connectCalls
    /\ connectCalls[c].pc = "testing"
    /\ connectCalls' = IF ok
                       THEN [connectCalls EXCEPT ![c].pc = "done", ![c].success = TRUE,
                                                 ![c].action = "connect_github"]
                       ELSE connectFails(c, "test_connection")
    /\ UNCHANGED <<connector, connectorConfig, otherVars, shellVars, managerVars>>

\* disconnect, with the write of saveConfig that follows it
Disconnect ==
    /\ LET config == [connector.config EXCEPT !.token = "", !.isConfigured = FALSE,
                                              !.lastConnected = <<>>]
       IN  /\ connector' = [connector EXCEPT !.config = config]
           /\ connectorConfig' = safeConfig(config)
    /\ connectCalls' = disturbed(connectCalls)
    /\ UNCHANGED <<otherVars, shellVars, managerVars>>

---------------------------------------------------------------------------
(* Spec: two concurrent chat requests and permission administration        *)

Users == {"Han", "Guest"}

ChatMessages == {<<"restart", "Agent", "clear", "cache">>}

ApprovedLists == {<<"restartAgent", "clearCache">>, <<"clearCache">>}

AdminActions == {"restartAgent", "clearCache"}

AdminRoles == {"super_admin", "user", "operator"}

Next ==
    \/ \E i \in Slots, u \in Users, m \in ChatMessages, e \in BOOLEAN,
          a \in ApprovedLists :
            ChatPost(i, u, m, e, a, TRUE)
    \/ \E i \in Slots : ExecuteLoop(i)
    \/ \E i \in Slots, threw \in BOOLEAN : CapabilityReturns(i, threw)
    \/ /\ adminCalls < MaxAdminCalls
       /\ \E u \in Users, a \in AdminActions, by \in Users : GrantPermission(u, a, by)
       /\ UNCHANGED lastCall
    \/ /\ adminCalls < MaxAdminCalls
       /\ \E u \in Users, a \in AdminActions, by \in Users : RevokePermission(u, a, by)
       /\ UNCHANGED lastCall
    \/ /\ adminCalls < MaxAdminCalls
       /\ \E u \in Users, r \in AdminRoles, by \in Users : AssignRole(u, r, by)
       /\ UNCHANGED lastCall

Spec == Init /\ [][Next]_vars

---------------------------------------------------------------------------
(* SpecBatch: one chat request at a time, over every list of approved names *)
(* of at most MaxApproved entries, with the flush timer running            *)

BatchMessages ==
    {<<"restart", "Agent", "clear", "cache">>,
     <<"translate", "get", "persona">>,
     <<"clear", "cache", "update", "memory">>,
     <<"github", "restart", "agent">>,
     <<"get", "memory">>}

BatchNames == {"restartAgent", "clearCache", "pluginTranslator", "getPersona",
               "backupSystem"}

BatchApproved == UNION {[1..k -> BatchNames] : k \in 0..MaxApproved}

NextBatch ==
    \/ \E u \in Users, m \in BatchMessages, e \in BOOLEAN, a \in BatchApproved,
          aiOk \in BOOLEAN :
            ChatPost(1, u, m, e, a, aiOk)
    \/ ExecuteLoop(1)
    \/ \E threw \in BOOLEAN : CapabilityReturns(1, threw)
    \/ FlushTimer
    \/ \E k \in 1..Len(flushing) : FlushWritten(k)
    \/ \E k \in 1..Len(flushing) : FlushFailed(k)

SpecBatch == Init /\ [][NextBatch]_vars

---------------------------------------------------------------------------
(* SpecRoute: the modular plugin route beside one chat request             *)

RouteParams == {NoParams, [action |-> "backup"], [text |-> "string"]}

RoutePlugins == {"pluginDatabaseManager", "pluginSummarizer", "pluginShell"}

NextRoute ==
    \/ /\ routeCalls < MaxRouteCalls
       /\ \E n \in RoutePlugins, p \in RouteParams, threw \in BOOLEAN :
                ModularRoutePost(n, p, threw)
    \/ \E u \in Users, m \in BatchMessages, e \in BOOLEAN, a \in ApprovedLists :
            ChatPost(1, u, m, e, a, TRUE)
    \/ ExecuteLoop(1)
    \/ \E threw \in BOOLEAN : CapabilityReturns(1, threw)

SpecRoute == Init /\ [][NextRoute]_vars

---------------------------------------------------------------------------
(* SpecPreview: createPreview over every message of at most MaxWords words  *)

NextPreview ==
    /\ reqs[1].pc = "idle"
    /\ \E u \in Users, m \in Messages(MaxWords) : ChatPost(1, u, m, FALSE, <<>>, TRUE)

SpecPreview == Init /\ [][NextPreview]_vars

---------------------------------------------------------------------------
(* SpecGate: the administration methods of PermissionGate and isAuthorized  *)
(* called one after another, each call recorded with what it returned      *)

GateRoles == RoleNames \cup {"operator"}

ImportData ==
    {[isNull |-> TRUE, users |-> [u \in {} |-> {}]],
     [isNull |-> FALSE, users |-> [u \in {"Guest"} |-> {"clearCache"}]],
     [isNull |-> FALSE, users |-> [u \in {"Han"} |-> {"getPersona"}]]}

GrantPermissionCall(u, a, by) ==
    /\ GrantPermission(u, a, by)
    /\ lastCall' = gateCall("grantPermission", u, a, by,
                            grantPermission(permissions, u, a, by).result)

RevokePermissionCall(u, a, by) ==
    /\ RevokePermission(u, a, by)
    /\ lastCall' = gateCall("revokePermission", u, a, by,
                            revokePermission(permissions, u, a, by).result)

AssignRoleCall(u, r, by) ==
    /\ AssignRole(u, r, by)
    /\ lastCall' = gateCall("assignRole", u, r, by,
                            assignRole(permissions, u, r, by).result)

ImportPermissionsCall(data, by) ==
    /\ ImportPermissions(data, by)
    /\ lastCall' = gateCall("importPermissions", "", "", by,
                            importPermissions(permissions, data, by).result)

NextGate ==
    \/ /\ adminCalls < MaxGateCalls
       /\ \E u \in Users, a \in AdminActions, by \in Users : GrantPermissionCall(u, a, by)
    \/ /\ adminCalls < MaxGateCalls
       /\ \E u \in Users, a \in AdminActions, by \in Users : RevokePermissionCall(u, a, by)
    \/ /\ adminCalls < MaxGateCalls
       /\ \E u \in Users, r \in AdminRoles, by \in Users : AssignRoleCall(u, r, by)
    \/ /\ adminCalls < MaxGateCalls
       /\ \E data \in ImportData, by \in Users : ImportPermissionsCall(data, by)
    \/ /\ Len(permLog) < MaxChecks
       /\ \E a \in AdminActions, u \in Users : IsAuthorizedCall(a, u)

SpecGate == Init /\ [][NextGate]_vars

---------------------------------------------------------------------------
(* SpecRoles: hasRole called on the tables the administration calls reach  *)

NextRoles ==
    \/ /\ adminCalls < MaxGateCalls
       /\ \E u \in Users, a \in AdminActions, by \in Users : GrantPermissionCall(u, a, by)
    \/ /\ adminCalls < MaxGateCalls
       /\ \E u \in Users, a \in AdminActions, by \in Users : RevokePermissionCall(u, a, by)
    \/ /\ adminCalls < MaxGateCalls
       /\ \E u \in Users, r \in AdminRoles, by \in Users : AssignRoleCall(u, r, by)
    \/ /\ adminCalls < MaxGateCalls
       /\ \E data \in ImportData, by \in Users : ImportPermissionsCall(data, by)
    \/ \E u \in Users, r \in GateRoles : HasRoleCall(u, r)

SpecRoles == Init /\ [][NextRoles]_vars

---------------------------------------------------------------------------
(* SpecLog: a long run of isAuthorized calls.  The user and the action of   *)
(* a call depend on the length of the log it finds, so that the entries of *)
(* the log differ along it and the run comes back to a log it has seen.    *)

CheckedUser(n) == IF n % 7 \in {0, 3} THEN "Han" ELSE "Guest"

CheckedAction(n) == IF n % 2 = 0 THEN "clearCache" ELSE "pluginShell"

NextLog == IsAuthorizedCall(CheckedAction(Len(permLog)), CheckedUser(Len(permLog)))

SpecLog == Init /\ [][NextLog]_vars

---------------------------------------------------------------------------
(* SpecHistory: a long run of calls of one plugin through the modular      *)
(* route.  The plugin works until the history is one entry short of its    *)
(* cap; from there on its execute may raise an error.                      *)

NextHistory ==
    /\ routeCalls < MaxHistoryCalls
    /\ \E threw \in BOOLEAN :
        /\ threw => Len(executionHistory.plugin) >= PluginHistoryCap - 1
        /\ ModularRoutePost("pluginDatabaseManager", [action |-> "backup"], threw)

SpecHistory == Init /\ [][NextHistory]_vars

---------------------------------------------------------------------------
(* SpecAudit: security events logged at every level while the flush timer  *)
(* runs and the store accepts or rejects each write                        *)

SecurityLevels == {"warning", "error", "critical"}

\* the number of records the audit logger has accepted and still holds or has stored
auditCount ==
    LET RECURSIVE total(_)
        total(n) == IF n = 0 THEN 0 ELSE Len(flushing[n]) + total(n - 1)
    IN  Len(pendingLogs) + total(Len(flushing)) + Len(auditStore)

NextAudit ==
    \/ /\ auditCount < MaxSecurityEvents
       /\ \E actor \in Users, level \in SecurityLevels : LogSecurityEvent(actor, level, 0)
    \/ FlushTimer
    \/ \E k \in 1..Len(flushing) : FlushWritten(k)
    \/ \E k \in 1..Len(flushing) : FlushFailed(k)

SpecAudit == Init /\ [][NextAudit]_vars

---------------------------------------------------------------------------
(* SpecTrail: records logged within one millisecond, told apart by the     *)
(* draw of Math.random(), while the timer flushes and the store accepts or *)
(* rejects each write                                                      *)

TrailLevels == {"warning", "error"}

IdDraws == {0, 1}

NextTrail ==
    \/ /\ auditCount < MaxTrail
       /\ \E level \in TrailLevels, rnd \in IdDraws : LogSecurityEvent("Guest", level, rnd)
    \/ FlushTimer
    \/ \E k \in 1..Len(flushing) : FlushWritten(k)
    \/ \E k \in 1..Len(flushing) : FlushFailed(k)

SpecTrail == Init /\ [][NextTrail]_vars

\* SpecDrain: setInterval keeps calling flushLogs, and the store answers
\* every write it was given, by accepting or by rejecting it.
SpecDrain ==
    /\ Init /\ [][NextTrail]_vars
    /\ WF_vars(FlushTimer)
    /\ WF_vars(\E k \in 1..Len(flushing) : FlushWritten(k) \/ FlushFailed(k))

---------------------------------------------------------------------------
(* SpecOutage: one chat request beside security events, while the store    *)
(* accepts or rejects each write                                           *)

\* the number of security events logged so far
securityEvents == Cardinality({k \in 1..Len(logged) : logged[k].what = "security_event"})

NextOutage ==
    \/ \E u \in Users, e \in BOOLEAN :
            ChatPost(1, u, <<"clear", "cache">>, e, <<"clearCache">>, TRUE)
    \/ ExecuteLoop(1)
    \/ \E threw \in BOOLEAN : CapabilityReturns(1, threw)
    \/ /\ securityEvents < MaxOutageEvents
       /\ \E level \in TrailLevels : LogSecurityEvent("Guest", level, 0)
    \/ FlushTimer
    \/ \E k \in 1..Len(flushing) : FlushWritten(k)
    \/ \E k \in 1..Len(flushing) : FlushFailed(k)

SpecOutage == Init /\ [][NextOutage]_vars

---------------------------------------------------------------------------
(* SpecIdem: createPreview called directly, between calls that change the  *)
(* permission table, the execution history and the audit buffer            *)

PreviewInputs ==
    {<<"summarize", "restart", "Agent">>, <<"clear", "cache">>,
     <<"get", "persona", "github">>, <<"hello">>}

NextIdem ==
    \/ /\ Len(previewed) < MaxPreviews
       /\ \E input \in PreviewInputs : CreatePreviewCall(input)
    \/ /\ routeCalls < MaxRouteCalls
       /\ \E n \in RoutePlugins, p \in RouteParams, threw \in BOOLEAN :
                ModularRoutePost(n, p, threw)
    \/ /\ adminCalls < MaxAdminCalls
       /\ \E u \in Users, a \in AdminActions, by \in Users : GrantPermission(u, a, by)
       /\ UNCHANGED lastCall
    \/ /\ securityEvents < MaxOutageEvents
       /\ \E level \in TrailLevels : LogSecurityEvent("Guest", level, 0)
    \/ FlushTimer

SpecIdem == Init /\ [][NextIdem]_vars

---------------------------------------------------------------------------
(* SpecFlags: one createPreview call on any message of at most MaxWords    *)
(* words, or on one of PreviewInputs                                       *)

NextFlags ==
    /\ previewed = <<>>
    /\ \E m \in Messages(MaxWords) \cup PreviewInputs : CreatePreviewCall(m)

SpecFlags == Init /\ [][NextFlags]_vars

---------------------------------------------------------------------------
(* SpecShell: commands are posted to the shell route and approved or       *)
(* rejected, by calls that overlap                                         *)

ShellTexts ==
    {<<"ls", "-la">>, <<"cat", "notes">>, <<"curl", "example">>,
     <<"rm", "-rf", "tmp">>, <<"ls", "Shutdown">>, <<>>}

ShellTypes == {"undefined", "system", "file", "network", "database", "custom"}

\* the ids a caller can name: those of the rows, and one that is no row's
CommandIds == 1..(Len(shellCommand) + 1)

NextShell ==
    \/ /\ Len(shellCalls) < MaxShellCalls
       /\ \E command \in ShellTexts, type \in ShellTypes : ShellPostExecute(command, type)
    \/ /\ Len(shellCalls) < MaxShellCalls
       /\ \E commandId \in CommandIds : ShellPostApprove(commandId, "Han")
    \/ /\ Len(shellCalls) < MaxShellCalls
       /\ \E commandId \in CommandIds : ShellPostReject(commandId, "Han")
    \/ \E c \in DOMAIN shellCalls : ApproveUpdates(c)
    \/ \E c \in DOMAIN shellCalls : ApproveExecutes(c)
    \/ \E c \in DOMAIN shellCalls, ok \in BOOLEAN : CommandSettles(c, ok)
    \/ \E c \in DOMAIN shellCalls : RejectUpdates(c)

SpecShell == Init /\ [][NextShell]_vars

---------------------------------------------------------------------------
(* SpecLockout: the two super admins of the initial table, Han and han,    *)
(* and a user without an entry administer the table                        *)

LockUsers == {"Han", "han"}

LockCallers == LockUsers \cup {"Guest"}

LockActions == {"restartAgent"}

LockRoles == {"super_admin", "user"}

LockData ==
    {[isNull |-> FALSE, users |-> [u \in {"han"} |-> {"getPersona"}]],
     [isNull |-> FALSE, users |-> [u \in {"Han"} |-> rolePermissions("super_admin")]]}

NextLockout ==
    \/ /\ adminCalls < MaxLockCalls
       /\ \E u \in LockUsers, a \in LockActions, by \in LockCallers :
                GrantPermissionCall(u, a, by)
    \/ /\ adminCalls < MaxLockCalls
       /\ \E u \in LockUsers, a \in LockActions, by \in LockCallers :
                RevokePermissionCall(u, a, by)
    \/ /\ adminCalls < MaxLockCalls
       /\ \E u \in LockUsers, r \in LockRoles, by \in LockCallers :
                AssignRoleCall(u, r, by)
    \/ /\ adminCalls < MaxLockCalls
       /\ \E data \in LockData, by \in LockCallers : ImportPermissionsCall(data, by)

SpecLockout == Init /\ [][NextLockout]_vars

---------------------------------------------------------------------------
(* SpecBackup: pluginDatabaseManager is invoked, the backup timers fire,   *)
(* and the backups they start overlap                                      *)

BackupConfigs == {[maxBackups |-> MaxKept], [maxBackups |-> MaxKept, autoBackup |-> FALSE]}

\* initialize would make a timer
initializeStartsTimer == mergeConfig(dbManager.config, savedConfig).autoBackup

NextBackup ==
    \/ /\ intervals.made < MaxTimers
       /\ \E partial \in BackupConfigs : ManagerSetup(partial)
    \/ /\ intervals.made < MaxTimers
       /\ ManagerReads
    \/ /\ initializeStartsTimer => intervals.made < MaxTimers
       /\ Len(backupCalls) < MaxBackupCalls
       /\ ManagerBackup
    \/ /\ Len(backupCalls) < MaxBackupCalls
       /\ \E timer \in intervals.active : BackupTimerFires(timer)
    \/ \E c \in DOMAIN backupCalls : BackupListed(c)
    \/ \E c \in DOMAIN backupCalls : BackupDeletes(c)
    \/ /\ now < MaxBackupClock
       /\ Tick

SpecBackup == Init /\ [][NextBackup]_vars

---------------------------------------------------------------------------
(* SpecScenario: one chat request by a user without an entry, by a user    *)
(* that was given the admin role before, or by Han                         *)

ScenarioMessages ==
    {<<"restart", "agent">>, <<"Restart", "agent">>, <<"clear", "cache">>}

ScenarioApproved == {<<"restartAgent">>, <<"clearCache">>}

NextScenario ==
    \/ /\ reqs[1].pc = "idle"
       /\ adminCalls < MaxAdminCalls
       /\ AssignRole("Guest", "admin", "Han")
       /\ UNCHANGED lastCall
    \/ \E u \in Users, m \in ScenarioMessages, e \in BOOLEAN, a \in ScenarioApproved :
            ChatPost(1, u, m, e, a, TRUE)
    \/ ExecuteLoop(1)
    \/ \E threw \in BOOLEAN : CapabilityReturns(1, threw)
    \/ FlushTimer
    \/ \E k \in 1..Len(flushing) : FlushWritten(k)

SpecScenario == Init /\ [][NextScenario]_vars

\* SpecLive: the event loop runs every continuation that is ready, so execute
\* resumes its loop whenever it can; when, and whether, a dispatched
\* capability comes back is up to the capability.
SpecLive == Init /\ [][NextScenario]_vars /\ WF_vars(ExecuteLoop(1))

---------------------------------------------------------------------------
(* SpecRegistry: the permission table changes and the gate is asked about  *)
(* the actions the commit router registers                                 *)

NextRegistry ==
    \/ /\ adminCalls < MaxGateCalls
       /\ \E u \in Users, a \in AdminActions, by \in Users : GrantPermissionCall(u, a, by)
    \/ /\ adminCalls < MaxGateCalls
       /\ \E u \in Users, r \in AdminRoles, by \in Users : AssignRoleCall(u, r, by)
    \/ \E action \in CommitActionNames : RequiresApprovalCall(action)

SpecRegistry == Init /\ [][NextRegistry]_vars

---------------------------------------------------------------------------
(* SpecRetention: records are logged and written while the clock advances, *)
(* and the retention cleanup runs with several retention periods.  Two     *)
(* records logged in the same millisecond get the same id when             *)
(* Math.random() draws the same.                                           *)

RetentionPeriods == {0, 1}

NextRetention ==
    \/ /\ Len(logged) < MaxTrail
       /\ \E level \in TrailLevels, rnd \in IdDraws : LogSecurityEvent("Guest", level, rnd)
    \/ /\ now < MaxRetentionClock
       /\ Tick
    \/ FlushTimer
    \/ \E k \in 1..Len(flushing) : FlushWritten(k)
    \/ \E daysToKeep \in RetentionPeriods : CleanupOldLogs(daysToKeep)

SpecRetention == Init /\ [][NextRetention]_vars

---------------------------------------------------------------------------
(* Properties *)

\* every audit record that logAction has accepted: buffered, in a write in
\* flight, or stored
AuditRecords ==
    Range(pendingLogs) \cup UNION {Range(flushing[b]) : b \in 1..Len(flushing)}
        \cup Range(auditStore)

\* positions of the results of request i that carry the action
ResultsFor(i, action) ==
    {k \in 1..Len(reqs[i].results) : reqs[i].results[k].action = action}

\* positions of the previews of request i that carry the action
PreviewsFor(i, action) ==
    {k \in 1..Len(reqs[i].previews) : reqs[i].previews[k].action = action}

Unauthorized(res) == ~res.success /\ res.result.error = "Unauthorized action"

Executed(i) == reqs[i].pc = "done" /\ reqs[i].response = "executed"

\* C1: a capability is dispatched for a user and an action only if the action
\* is in that user's permission set at the moment of the dispatch, whatever
\* grants, revocations and role assignments ran before it.
C1_DispatchOnlyWhenPermitted ==
    \A inv \in invocations : inv.via = "execute" => inv.checked /\ inv.permitted

\* C1 witness: within one batch the first action was dispatched and came back,
\* and the second one, revoked in between, was denied.
C1_RevokedWithinBatch ==
    \E i \in Slots :
        /\ Len(reqs[i].results) = 2
        /\ reqs[i].results[1].success
        /\ Unauthorized(reqs[i].results[2])
        /\ \E inv \in invocations : inv.req = i /\ inv.action = reqs[i].results[1].action

\* C2: every invocation of executePlugin comes from the orchestrator, after an
\* isAuthorized check that returned true for the caller.
C2_EveryInvocationAuthorized ==
    \A inv \in invocations : inv.via = "execute" /\ inv.checked /\ inv.permitted

\* C3: every preview whose action has risk level high or critical has
\* requiresApproval = true.
C3_HighRiskRequiresApproval ==
    \A i \in Slots : \A k \in 1..Len(reqs[i].previews) :
        getActionRiskLevel(reqs[i].previews[k].action) \in {"high", "critical"}
            => reqs[i].previews[k].requiresApproval

\* C3 witness: one preview list holds a high-risk action of the Zhupi adapter
\* and a low-risk action beside it.
C3_HighAndLowPreviewed ==
    \E i \in Slots : \E k, l \in 1..Len(reqs[i].previews) :
        /\ reqs[i].previews[k].action = "updateMemory"
        /\ getActionRiskLevel(reqs[i].previews[k].action) = "high"
        /\ getActionRiskLevel(reqs[i].previews[l].action) = "low"
        /\ ~reqs[i].previews[l].requiresApproval

\* C4: execute dispatches only previews whose action name is in
\* approvedActions; the chat endpoint runs execute only when executeActions is
\* true and approvedActions is non-empty; and a request whose preview requires
\* approval, sent without executeActions, is answered with the preview and
\* dispatches nothing.
C4_DispatchOnlyApproved ==
    /\ \A inv \in invocations :
            inv.via = "execute" => arrayIncludes(reqs[inv.req].approved, inv.action)
    /\ \A i \in Slots :
            (reqs[i].pc \in {"loop", "dispatched"} \/ reqs[i].response = "executed")
                => reqs[i].executeActions /\ Len(reqs[i].approved) > 0
    /\ \A i \in Slots :
            (/\ reqs[i].pc # "idle"
             /\ ~reqs[i].executeActions
             /\ \E k \in 1..Len(reqs[i].previews) : reqs[i].previews[k].requiresApproval)
                => /\ reqs[i].pc = "done"
                   /\ reqs[i].response = "preview"
                   /\ \A inv \in invocations : inv.req # i

\* C4 witness: a batch of two detected actions of which one was approved and
\* dispatched and the other was left out.
C4_UnapprovedSkipped ==
    \E i \in Slots :
        /\ Executed(i)
        /\ Len(reqs[i].previews) = 2
        /\ Len(reqs[i].results) = 1
        /\ \E inv \in invocations : inv.req = i
        /\ \E k \in 1..2 : ~arrayIncludes(reqs[i].approved, reqs[i].previews[k].action)

\* C5: an approved action for which isAuthorized returns false yields one
\* ExecutionResult with success = false and the error "Unauthorized action",
\* and its capability is not invoked: the denied checks of a user and an
\* action are as many as their unauthorized results, the granted checks as
\* many as their invocations, and no unauthorized result has an invocation.
C5_DeniedYieldsFailedResult ==
    /\ \A u \in Users, a \in AdminActions :
        /\ Cardinality({k \in 1..Len(permLog) :
                permLog[k].user = u /\ permLog[k].action = a /\ ~permLog[k].granted})
           = Cardinality(UNION {{<<i, k>> : k \in {j \in ResultsFor(i, a) :
                                        /\ reqs[i].user = u
                                        /\ Unauthorized(reqs[i].results[j])}} :
                                i \in Slots})
        /\ Cardinality({k \in 1..Len(permLog) :
                permLog[k].user = u /\ permLog[k].action = a /\ permLog[k].granted})
           = Cardinality({inv \in invocations :
                inv.via = "execute" /\ inv.user = u /\ inv.action = a})
    /\ \A i \in Slots : \A k \in 1..Len(reqs[i].results) :
            Unauthorized(reqs[i].results[k])
                => \A inv \in invocations :
                        ~(inv.req = i /\ inv.action = reqs[i].results[k].action)

\* C5 witness: an approved action was denied after the batch was handed to
\* execute, and its failed result is the only trace of it.
C5_ApprovedActionDenied ==
    \E i \in Slots : \E k \in 1..Len(reqs[i].results) :
        /\ Unauthorized(reqs[i].results[k])
        /\ arrayIncludes(reqs[i].approved, reqs[i].results[k].action)
        /\ \E j \in 1..Len(permLog) :
                /\ permLog[j].user = reqs[i].user
                /\ permLog[j].action = reqs[i].results[k].action
                /\ ~permLog[j].granted

\* C6: when execute has returned, every ExecutionResult it returns, whether
\* succeeded, denied or failed, has an audit record of its action and
\* execution made through logAction.
C6_EveryResultAudited ==
    \A i \in Slots :
        Executed(i) =>
            \A k \in 1..Len(reqs[i].results) :
                \E rec \in AuditRecords :
                    /\ rec.what = "outcome"
                    /\ rec.executionId = i
                    /\ rec.action = <<reqs[i].results[k].action>>

\* C7: execute returns exactly one result for each detected action whose name
\* is approved, results only for such actions, and so never more results than
\* approvedActions has names; an approved name that matches no preview yields
\* no result and no invocation.
C7_OneResultPerApprovedAction ==
    \A i \in Slots :
        /\ \A inv \in invocations :
                inv.req = i =>
                    /\ PreviewsFor(i, inv.action) # {}
                    /\ arrayIncludes(reqs[i].approved, inv.action)
        /\ Executed(i) =>
            /\ Len(reqs[i].results) <= Len(reqs[i].approved)
            /\ \A k \in 1..Len(reqs[i].results) :
                    /\ arrayIncludes(reqs[i].approved, reqs[i].results[k].action)
                    /\ PreviewsFor(i, reqs[i].results[k].action) # {}
            /\ \A k \in 1..Len(reqs[i].previews) :
                    arrayIncludes(reqs[i].approved, reqs[i].previews[k].action)
                        => Cardinality(ResultsFor(i, reqs[i].previews[k].action)) = 1

\* C7 witness: a returned batch in which one approved name matched a preview
\* and another approved name matched none.
C7_UnknownNameIgnored ==
    \E i \in Slots :
        /\ Executed(i)
        /\ Len(reqs[i].results) = 1
        /\ Len(reqs[i].approved) = 2
        /\ \E k \in 1..2 : PreviewsFor(i, reqs[i].approved[k]) = {}

\* the first position of x in arr (0 when absent): Array.prototype.indexOf + 1
indexOf(arr, x) ==
    IF arrayIncludes(arr, x)
    THEN CHOOSE k \in 1..Len(arr) : arr[k] = x /\ \A j \in 1..(k - 1) : arr[j] # x
    ELSE 0

\* C8 as stated: the results of execute are in the order of the corresponding
\* names in approvedActions.
C8_ResultsInApprovedOrder ==
    \A i \in Slots :
        Executed(i) =>
            \A k, l \in 1..Len(reqs[i].results) :
                k < l => indexOf(reqs[i].approved, reqs[i].results[k].action)
                            < indexOf(reqs[i].approved, reqs[i].results[l].action)

\* C8 amended: the results of execute are in the order in which createPreview
\* lists the detected actions (plugin, then commit, then Zhupi detections),
\* whatever the order of the names in approvedActions.
C8_ResultsInPreviewOrder ==
    \A i \in Slots :
        \A k, l \in 1..Len(reqs[i].results) :
            k < l =>
                \E pk \in PreviewsFor(i, reqs[i].results[k].action) :
                    \A pl \in PreviewsFor(i, reqs[i].results[l].action) : pk < pl

\* C8 witness: a returned batch of two results whose names were approved in
\* the opposite order.
C8_ApprovedInReverse ==
    \E i \in Slots :
        /\ Executed(i)
        /\ Len(reqs[i].results) = 2
        /\ reqs[i].approved = <<reqs[i].results[2].action, reqs[i].results[1].action>>

\* C9: an ExecutionResult has success = true only when the capability itself
\* succeeded; a capability that is not found, rejects its parameters or
\* raises an error yields success = false and an audit record at level error.
C9_SuccessOnlyWhenCapabilitySucceeded ==
    \A i \in Slots : \A k \in 1..Len(reqs[i].results) :
        reqs[i].results[k].result.error # ""
            => /\ ~reqs[i].results[k].success
               /\ Unauthorized(reqs[i].results[k])
                    \/ \E rec \in AuditRecords :
                            /\ rec.what = "outcome"
                            /\ rec.executionId = i
                            /\ rec.action = <<reqs[i].results[k].action>>
                            /\ rec.level = "error"

\* C10: a denied or failing action does not keep the remaining approved
\* actions from being checked and dispatched: every approved preview before
\* the loop's position has its result, and execute returns only past the last
\* preview.
C10_BatchRunsToTheEnd ==
    \A i \in Slots :
        /\ reqs[i].pc \in {"loop", "dispatched", "done"} =>
                \A k \in 1..Len(reqs[i].previews) :
                    (k < reqs[i].idx /\ arrayIncludes(reqs[i].approved,
                                                      reqs[i].previews[k].action))
                        => ResultsFor(i, reqs[i].previews[k].action) # {}
        /\ Executed(i) => reqs[i].idx = Len(reqs[i].previews) + 1

\* C10 witness: a returned batch whose first action was denied and whose
\* second action was dispatched and came back.
C10_ContinuedAfterDenial ==
    \E i \in Slots :
        /\ Executed(i)
        /\ Len(reqs[i].results) = 2
        /\ Unauthorized(reqs[i].results[1])
        /\ reqs[i].results[2].success
        /\ \E inv \in invocations : inv.req = i /\ inv.action = reqs[i].results[2].action

\* the user has an entry in the table that contains every permission of the
\* super_admin role
HoldsSuperAdmin(table, user) ==
    /\ user \in DOMAIN table
    /\ rolePermissions("super_admin") \subseteq table[user]

Administration ==
    {"grantPermission", "revokePermission", "assignRole", "importPermissions"}

\* C11: grantPermission, revokePermission, assignRole and importPermissions
\* change the permission table only when the acting user holds super_admin at
\* the time of the call; when it does not, the call returns false and the
\* table is as it was.
C11_OnlySuperAdminMutates ==
    lastCall.op \in Administration =>
        /\ ~HoldsSuperAdmin(lastCall.before, lastCall.by)
                => ~lastCall.result /\ permissions = lastCall.before
        /\ permissions # lastCall.before
                => HoldsSuperAdmin(lastCall.before, lastCall.by)

\* C11 witness: a user that has an entry in the table but lost super_admin
\* tried to grant a permission the target did not have, and was refused.
C11_FormerSuperAdminRefused ==
    /\ lastCall.op = "grantPermission"
    /\ lastCall.by \in DOMAIN lastCall.before
    /\ ~HoldsSuperAdmin(lastCall.before, lastCall.by)
    /\ lastCall.user \notin DOMAIN lastCall.before
    /\ ~lastCall.result
    /\ permissions = lastCall.before

\* C12: every grantPermission and revokePermission call appends a record to
\* an audit trail (the gate's log or the audit logger), and every refused
\* grantPermission, revokePermission or assignRole attempt appends a denial
\* record at warning level.
C12_AdministrationAudited ==
    /\ lastCall.op \in {"grantPermission", "revokePermission"}
            => \/ Len(permLog) > lastCall.checks
               \/ \E rec \in AuditRecords : rec.actor = lastCall.by
    /\ (/\ lastCall.op \in {"grantPermission", "revokePermission", "assignRole"}
        /\ ~HoldsSuperAdmin(lastCall.before, lastCall.by))
            => \/ /\ Len(permLog) > lastCall.checks
                  /\ ~permLog[Len(permLog)].granted
               \/ \E rec \in AuditRecords :
                        rec.actor = lastCall.by /\ rec.level = "warning"

\* C13: isAuthorized(action, user) returns true iff the user has an entry in
\* the permission table and the entry contains the action; the call appends
\* exactly one check record, of that action, user and answer, and leaves the
\* permission table as it was.
C13_IsAuthorizedReadsTable ==
    lastCall.op = "isAuthorized" =>
        /\ lastCall.result = (/\ lastCall.user \in DOMAIN lastCall.before
                              /\ lastCall.what \in lastCall.before[lastCall.user])
        /\ permissions = lastCall.before
        /\ Len(permLog) = lastCall.checks + 1
        /\ permLog[Len(permLog)] = [action |-> lastCall.what, user |-> lastCall.user,
                                    granted |-> lastCall.result]

\* C13 witness: the second check of a user that has no entry was denied,
\* after a check of another user was granted.
C13_UnknownUserDenied ==
    /\ lastCall.op = "isAuthorized"
    /\ lastCall.user \notin DOMAIN permissions
    /\ ~lastCall.result
    /\ Len(permLog) = 2
    /\ permLog[1].granted
    /\ ~permLog[2].granted

\* a check of the user and action of the call before it
ChecksLastCall ==
    /\ lastCall'.op = "isAuthorized"
    /\ lastCall'.user = lastCall.user
    /\ lastCall'.what = lastCall.what

\* C14: when an acting user holding super_admin has granted a permission, a
\* check of that user and action that follows returns true; when it has
\* revoked one, a check that follows returns false.
C14_GrantRevokeRoundTrip ==
    [][/\ (/\ lastCall.op = "grantPermission"
            /\ HoldsSuperAdmin(lastCall.before, lastCall.by)
            /\ ChecksLastCall) => lastCall'.result
       /\ (/\ lastCall.op = "revokePermission"
            /\ HoldsSuperAdmin(lastCall.before, lastCall.by)
            /\ ChecksLastCall) => ~lastCall'.result]_vars

\* C14 witness: for a user that had no entry at first, the check after the
\* grant was granted and the check after the revocation that followed was
\* denied.
C14_GrantedThenRevoked ==
    /\ lastCall.op = "isAuthorized"
    /\ lastCall.user \notin DOMAIN initializePermissions
    /\ Len(permLog) = 2
    /\ permLog[1] = [action |-> lastCall.what, user |-> lastCall.user, granted |-> TRUE]
    /\ permLog[2] = [action |-> lastCall.what, user |-> lastCall.user, granted |-> FALSE]
    /\ adminCalls = 2

\* C15: hasRole(user, role) returns true iff the user has an entry in the
\* permission table, the role is defined, and the user's permission set is a
\* superset of the role's permission set (every user with an entry has the
\* guest role, whose set is empty).
C15_HasRoleIsSuperset ==
    lastCall.op = "hasRole" =>
        lastCall.result =
            (/\ lastCall.user \in DOMAIN lastCall.before
             /\ lastCall.what \in {"super_admin", "admin", "user", "guest"}
             /\ rolePermissions(lastCall.what) \subseteq lastCall.before[lastCall.user])

\* C15 witness: a user whose entry was emptied has the guest role.
C15_EmptyEntryHasGuestRole ==
    /\ lastCall.op = "hasRole"
    /\ lastCall.what = "guest"
    /\ lastCall.user \in DOMAIN lastCall.before
    /\ lastCall.before[lastCall.user] = {}
    /\ lastCall.result

\* C16: the gate's check log never holds more than 1000 entries; an append
\* to a log of fewer than 1000 entries adds the entry at the end, and an
\* append to a log of 1000 entries leaves exactly the most recent 500 (the
\* last 499 of the log and the new one), in their order.
C16_CheckLogBounded ==
    /\ [](Len(permLog) <= 1000)
    /\ [][permLog' # permLog =>
            IF Len(permLog) < 1000
            THEN /\ Len(permLog') = Len(permLog) + 1
                 /\ \A k \in 1..Len(permLog) : permLog'[k] = permLog[k]
            ELSE /\ Len(permLog') = 500
                 /\ \A k \in 1..499 : permLog'[k] = permLog[501 + k]
                 /\ permLog'[500] = [action |-> lastCall'.what, user |-> lastCall'.user,
                                     granted |-> lastCall'.result]]_vars

\* C16 witness: the call found 1000 entries and left 500.
C16_LogTrimmed ==
    /\ lastCall.op = "isAuthorized"
    /\ lastCall.checks = 1000
    /\ Len(permLog) = 500

\* parameter objects tried on the three executors
ProbeParams ==
    RouteParams \cup {[config |-> "object"], [updates |-> "object"],
                      [text |-> "string", targetLanguage |-> "string"]}

\* what the claim asks of one call of an executor: known tells whether the
\* name is registered, valid whether validate accepts the parameters, o and
\* oThrew are the outcomes when execute returns and when it raises an error
WrapsEveryOutcome(history, known, valid, o, oThrew) ==
    /\ o.result.success \in BOOLEAN /\ oThrew.result.success \in BOOLEAN
    /\ ~known => /\ o.result = [success |-> FALSE, error |-> "not found"]
                  /\ oThrew = o
                  /\ o.history = history
    /\ (known /\ ~valid) =>
                  /\ o.result = [success |-> FALSE, error |-> "invalid parameters"]
                  /\ oThrew = o
                  /\ o.history = history
    /\ (known /\ valid) =>
                  /\ o.result.success
                  /\ ~oThrew.result.success
                  /\ oThrew.result.error = "execution failed"

\* C17: executePlugin, CommitRouter.executeAction and ZhupiAdapter.executeAction
\* always return a result: failure "not found" for an unregistered name and
\* failure "invalid parameters" when validate rejects, in both cases without
\* running execute; an error raised by execute becomes a failure result.  The
\* modular route's response is the result of its call.
C17_ExecutorsWrapEveryOutcome ==
    /\ \A p \in ProbeParams :
        /\ \A n \in PluginNames \cup {"pluginShell"} :
                WrapsEveryOutcome(executionHistory.plugin,
                    n \in {"pluginSummarizer", "pluginTranslator", "pluginGitHubStorage",
                           "pluginGitHubConnector", "pluginDatabaseManager"},
                    pluginValidate(n, p),
                    executePlugin(executionHistory.plugin, n, p, FALSE),
                    executePlugin(executionHistory.plugin, n, p, TRUE))
        /\ \A n \in CommitActionNames \cup {"dropDatabase"} :
                WrapsEveryOutcome(executionHistory.commit,
                    n \in {"restartAgent", "clearCache", "restartModels", "updateConfig",
                           "backupSystem", "cleanupLogs"},
                    commitValidate(n, p),
                    commitExecuteAction(executionHistory.commit, n, p, FALSE),
                    commitExecuteAction(executionHistory.commit, n, p, TRUE))
        /\ \A n \in ZhupiActionNames \cup {"deletePersona"} :
                WrapsEveryOutcome(executionHistory.zhupi,
                    n \in {"getPersona", "updateMemory", "getUserPreferences",
                           "setUserPreferences", "getAnalytics", "createPersona"},
                    zhupiValidate(n, p),
                    zhupiExecuteAction(executionHistory.zhupi, n, p, FALSE),
                    zhupiExecuteAction(executionHistory.zhupi, n, p, TRUE))
    /\ \A inv \in invocations :
            (inv.via = "modular_route" /\ inv.idx = routeCalls) =>
                /\ inv.action = "pluginShell"
                        => routeResponse = [success |-> FALSE, error |-> "not found"]
                /\ routeResponse.success
                        => /\ executionHistory.plugin # <<>>
                           /\ executionHistory.plugin[Len(executionHistory.plugin)]
                                    = [name |-> inv.action, success |-> TRUE]
                /\ routeResponse.error = "invalid parameters"
                        => \E p \in RouteParams : ~pluginValidate(inv.action, p)

\* C17 witness: the route was called with a name that is not registered and
\* answered with the failure result, and nothing ran.
C17_UnregisteredPluginRefused ==
    /\ routeCalls = 1
    /\ \E inv \in invocations : inv.via = "modular_route" /\ inv.action = "pluginShell"
    /\ routeResponse = [success |-> FALSE, error |-> "not found"]
    /\ executionHistory.plugin = <<>>

\* C18: the execution history of PluginExecutor, of CommitRouter and of
\* ZhupiAdapter never holds more than 100 entries, whether the invocations
\* succeed or fail.
C18_HistoryBounded ==
    /\ Len(executionHistory.plugin) <= 100
    /\ Len(executionHistory.commit) <= 100
    /\ Len(executionHistory.zhupi) <= 100

\* C19: every invocation of executePlugin appends one entry to the execution
\* history, also when the name is not registered or validate rejects the
\* parameters: the history holds an entry for each call the modular route
\* has made.
C19_EveryInvocationInHistory ==
    Cardinality({inv \in invocations : inv.via = "modular_route"})
        <= Len(executionHistory.plugin)

\* C20: once logAction for a record of level error or critical has returned,
\* the record is in the durable audit store.
C20_ErrorRecordsDurable ==
    \A rec \in returned : rec \in Range(auditStore)

\* how many times the record occurs in the sequence
occurrences(seq, rec) == Cardinality({k \in 1..Len(seq) : seq[k] = rec})

\* how many times the record occurs in the buffer, the batches in flight and
\* the store together
held(rec) ==
    LET RECURSIVE inFlight(_)
        inFlight(n) == IF n = 0 THEN 0
                       ELSE occurrences(flushing[n], rec) + inFlight(n - 1)
    IN  occurrences(pendingLogs, rec) + inFlight(Len(flushing))
            + occurrences(auditStore, rec)

\* C21: every record logAction has built is in the pending buffer, in a batch
\* in flight or in the store, as many times as it was logged; and when the
\* write of a batch fails, the batch is put back whole and in its order at
\* the front of the pending buffer, before the records logged since.
C21_FailedBatchRequeued ==
    /\ [](\A rec \in Range(logged) : held(rec) = occurrences(logged, rec))
    /\ [][(Len(flushing') < Len(flushing) /\ auditStore' = auditStore) =>
            \E k \in 1..Len(flushing) :
                /\ flushing' = removeAt(flushing, k)
                /\ pendingLogs' = flushing[k] \o pendingLogs]_vars

\* C21 witness: the write of the first record failed while a second record,
\* logged in the meantime, was waiting; the buffer holds both, the first in
\* front.
C21_RequeuedAheadOfLater ==
    /\ Len(logged) = 2
    /\ logged[1] # logged[2]
    /\ logged[1] \in returned
    /\ pendingLogs = logged
    /\ flushing = <<>>
    /\ auditStore = <<>>

\* the record is in a batch whose write has not settled
InFlight(rec) == \E b \in 1..Len(flushing) : rec \in Range(flushing[b])

\* C22: a write the store rejects raises nothing in logAction or in the timer
\* callback: no flush hands the store's error on, the logAction call of
\* every error or critical record whose write has settled has returned, and
\* a request that has ended has ended with one of its regular responses.
C22_FlushFailureNotPropagated ==
    /\ raised = {}
    /\ \A rec \in Range(logged) :
            (rec.level \in {"critical", "error"} /\ ~InFlight(rec)) => rec \in returned
    /\ \A i \in Slots :
            reqs[i].pc = "done" => reqs[i].response \in {"preview", "executed", "chat"}

\* C22 witness: the write of a batch that held the request's execution_start
\* record and an error record was rejected; the logAction call of the error
\* record returned, and execute ran to its end with a result.
C22_ExecutedThroughOutage ==
    /\ Executed(1)
    /\ Len(reqs[1].results) > 0
    /\ auditStore = <<>>
    /\ \E k, l \in 1..Len(pendingLogs) :
            /\ k < l
            /\ pendingLogs[k].what = "execution_start"
            /\ pendingLogs[l].level = "error"
            /\ pendingLogs[l] \in returned

\* the records of a occur in b in the order they have in a
RECURSIVE isSubsequence(_, _)
isSubsequence(a, b) ==
    IF Len(a) = 0 THEN TRUE
    ELSE IF Len(b) = 0 THEN FALSE
    ELSE IF Head(a) = Head(b) THEN isSubsequence(Tail(a), Tail(b))
    ELSE isSubsequence(a, Tail(b))

\* C23: the rows of the store are in the order in which logAction was called
\* for them: no record is written before a record that was logged earlier.
C23_StoredInCallOrder == isSubsequence(auditStore, logged)

\* C24: no two records that logAction has built have the same id.
C24_IdsUnique ==
    \A k, l \in 1..Len(logged) : k # l => logged[k].id # logged[l].id

\* C25: a record that logAction has built and that is no longer in the
\* buffer, in a batch in flight or in the store was deleted by the retention
\* cleanup, was older than the cleanup's cutoff could be, and the cleanup has
\* a record of its own in the audit trail.
C25_DeletedOnlyByAuditedCleanup ==
    \A rec \in Range(logged) :
        held(rec) < occurrences(logged, rec) =>
            /\ rec.timestamp < now
            /\ \E c \in AuditRecords : c.what = "cleanup"

\* C26: two calls of createPreview with the same input return the same list
\* of previews and the same requiresApproval flag, whatever ran between
\* them; and a call leaves the permission table, the check log, the
\* execution histories, the audit buffer, the batches in flight and the
\* store as they were.
C26_CreatePreviewIdempotent ==
    /\ [](\A k, l \in 1..Len(previewed) :
            previewed[k].input = previewed[l].input =>
                /\ previewed[k].previews = previewed[l].previews
                /\ previewed[k].requiresApproval = previewed[l].requiresApproval)
    /\ [][Len(previewed') > Len(previewed) =>
            UNCHANGED <<permissions, permLog, executionHistory, pendingLogs,
                        flushing, auditStore, shellVars, managerVars, connectorVars>>]_vars

\* C26 witness: createPreview was called twice with an input that maps to a
\* plugin and to a command that needs approval, and the plugin ran through
\* the modular route and a permission was granted besides.
C26_PreviewedTwice ==
    /\ Len(previewed) = 2
    /\ previewed[1].input = previewed[2].input
    /\ Len(previewed[1].previews) = 2
    /\ previewed[1].requiresApproval
    /\ \E k \in 1..Len(executionHistory.plugin) :
            executionHistory.plugin[k].name = previewed[1].previews[1].action
    /\ adminCalls = 1

\* positions in the call order of the audit records made for request i
RecordsOf(i) == {k \in 1..Len(logged) : logged[k].executionId = i}

\* C27: for a user without an entry in the permission table and an input
\* that maps to restartAgent, the restartAgent preview requires approval and
\* restartAgent is never invoked; execute with approvedActions =
\* ["restartAgent"] returns exactly one result, the unauthorized failure of
\* restartAgent, and the request has exactly one audit record, at level
\* warning.
C27_GuestRestartDenied ==
    \A i \in Slots :
        (/\ reqs[i].pc # "idle"
         /\ reqs[i].user \notin DOMAIN permissions
         /\ PreviewsFor(i, "restartAgent") # {}) =>
            /\ \A k \in PreviewsFor(i, "restartAgent") : reqs[i].previews[k].requiresApproval
            /\ \A inv \in invocations : ~(inv.req = i /\ inv.action = "restartAgent")
            /\ (Executed(i) /\ reqs[i].approved = <<"restartAgent">>) =>
                    /\ Len(reqs[i].results) = 1
                    /\ reqs[i].results[1].action = "restartAgent"
                    /\ Unauthorized(reqs[i].results[1])
                    /\ Cardinality(RecordsOf(i)) = 1
                    /\ \A k \in RecordsOf(i) : logged[k].level = "warning"

\* C28: when a user that holds the admin role sends an input that maps to
\* clearCache and execute runs with approvedActions = ["clearCache"], execute
\* returns exactly one result, with success = true, and the request has
\* exactly one audit record, at level info, of the result's executionId.
C28_AdminClearCacheSucceeds ==
    \A i \in Slots :
        (/\ Executed(i)
         /\ hasRole(permissions, reqs[i].user, "admin")
         /\ reqs[i].approved = <<"clearCache">>
         /\ PreviewsFor(i, "clearCache") # {}) =>
            /\ Len(reqs[i].results) = 1
            /\ reqs[i].results[1].success
            /\ Cardinality(RecordsOf(i)) = 1
            /\ \A k \in RecordsOf(i) :
                    /\ logged[k].level = "info"
                    /\ logged[k].executionId = reqs[i].results[1].executionId

\* C29: execute always returns: once it has started its loop it reaches its
\* end, also when a dispatched capability never comes back.
C29_ExecuteTerminates ==
    \A i \in Slots : (reqs[i].pc = "loop") ~> (reqs[i].pc = "done")

\* C30: the permission gate answers true when asked whether an action the
\* commit router registers (restartAgent, clearCache, restartModels,
\* updateConfig, backupSystem, cleanupLogs) requires approval.
C30_CommitActionsRequireApproval ==
    (lastCall.op = "requiresApproval" /\ lastCall.what \in CommitActionNames) =>
        lastCall.result

\* C31: in what createPreview returns, the flag of every preview is the
\* answer of the permission gate's requiresApproval for the preview's action,
\* and the overall flag is true exactly when some preview's flag is (false
\* for an empty list).
C31_FlagsFollowGate ==
    \A c \in 1..Len(previewed) :
        LET p == previewed[c]
        IN  /\ \A k \in 1..Len(p.previews) :
                    p.previews[k].requiresApproval = requiresApproval(p.previews[k].action)
            /\ p.requiresApproval = (\E k \in 1..Len(p.previews) : p.previews[k].requiresApproval)

\* C31 witness: a preview list whose first preview needs no approval and a
\* later one does, and an empty list
C31_MixedFlags ==
    \E c \in 1..Len(previewed) :
        /\ Len(previewed[c].previews) > 1
        /\ ~previewed[c].previews[1].requiresApproval
        /\ previewed[c].requiresApproval

\* the allow-list validateCommand has for a type
allowListOf(type) ==
    CASE type = "system" -> allowedSystemCommands
      [] type = "file" -> allowedFileCommands
      [] type = "network" -> allowedNetworkCommands
      [] OTHER -> {}

\* the calls of approveCommand that went on to run the command of run k
ApprovalsOf(k) ==
    {c \in DOMAIN shellCalls :
        shellCalls[c].op = "approve" /\ shellCalls[c].row = shellRuns[k].row}

\* C32: every command the shell service ran holds no blocked substring, has
\* a type other than database and a first word in the allow-list of its
\* type, and was run with autoApprove = true by an approveCommand that found
\* its record pending; an executeCommand with autoApprove = false that
\* returned answered pending and ran nothing.
C32_RunsOnlyValidatedApproved ==
    /\ \A k \in DOMAIN shellRuns :
            /\ ~containsDangerous(shellRuns[k].command)
            /\ shellRuns[k].type # "database"
            /\ commandStart(shellRuns[k].command) \in allowListOf(shellRuns[k].type)
            /\ shellRuns[k].autoApprove
            /\ ApprovalsOf(k) # {}
            /\ \A c \in ApprovalsOf(k) : shellCalls[c].found.status = "pending"
    /\ \A c \in DOMAIN shellCalls :
            (shellCalls[c].op = "execute" /\ shellCalls[c].pc = "done") =>
                /\ shellCalls[c].status = "pending"
                /\ \A k \in DOMAIN shellRuns : shellRuns[k].row # shellCalls[c].row

\* C33: of the approveCommand and rejectCommand calls on one command at most
\* one returns; a command is run at most once for its record, and never when
\* its record is in status rejected.
C33_ApprovalResolvedOnce ==
    \A id \in DOMAIN shellCommand :
        /\ Cardinality({c \in DOMAIN shellCalls :
                /\ shellCalls[c].op \in {"approve", "reject"}
                /\ shellCalls[c].commandId = id
                /\ shellCalls[c].pc = "done"}) <= 1
        /\ Cardinality({k \in DOMAIN shellRuns : shellRuns[k].commandId = id}) <= 1
        /\ shellCommand[id].status = "rejected" =>
                \A k \in DOMAIN shellRuns : shellRuns[k].commandId # id

\* C34: once the command of an approveCommand call has run, the record that
\* was approved is in status executed or failed, and it is the record the
\* run belongs to: the approval created no other record.
C34_ApprovedRecordAdvances ==
    \A c \in DOMAIN shellCalls :
        (/\ shellCalls[c].op = "approve"
         /\ shellCalls[c].pc \in {"done", "failed"}
         /\ shellCalls[c].row # 0) =>
            /\ shellCommand[shellCalls[c].commandId].status \in {"executed", "failed"}
            /\ shellCalls[c].row = shellCalls[c].commandId

\* a step in which the store rejects a write
StoreRejects == \E k \in 1..Len(flushing) : FlushFailed(k)

\* every record logAction built is in the store as often as it was logged,
\* and nowhere else
AllWrittenOnce ==
    /\ pendingLogs = <<>>
    /\ flushing = <<>>
    /\ \A rec \in Range(logged) : occurrences(auditStore, rec) = occurrences(logged, rec)

\* C35: no record is ever in the store more often than it was logged; and
\* unless the store goes on rejecting writes for ever, from some moment on
\* every record that was logged is in the store exactly as often as it was
\* logged.
C35_EventuallyWrittenOnce ==
    /\ [](\A rec \in Range(auditStore) :
            occurrences(auditStore, rec) <= occurrences(logged, rec))
    /\ ([]<><<StoreRejects>>_vars) \/ <>[]AllWrittenOnce

\* C35 witness: all the records were logged and are written, once each, in
\* another order than the order of the calls: a write failed and was
\* retried, or two writes overlapped
C35_WrittenAfterRetry ==
    /\ Len(logged) = MaxTrail
    /\ AllWrittenOnce
    /\ auditStore # logged

\* no user of the table holds super_admin
LockedOut(table) == \A u \in DOMAIN table : ~HoldsSuperAdmin(table, u)

\* C36: a grantPermission, revokePermission, assignRole or importPermissions
\* call made when no user holds super_admin returns false, and from a state
\* in which no user holds super_admin no step changes the permission table.
C36_LockoutIsFinal ==
    /\ []((lastCall.op \in Administration /\ LockedOut(lastCall.before)) =>
            (~lastCall.result /\ permissions = lastCall.before))
    /\ [][LockedOut(permissions) => permissions' = permissions]_vars

\* C36 witness: the last super admin took a permission away from itself, the
\* call returned true, and no user holds super_admin any more
C36_SuperAdminLockedItselfOut ==
    /\ lastCall.op = "revokePermission"
    /\ lastCall.user = lastCall.by
    /\ lastCall.result
    /\ ~LockedOut(lastCall.before)
    /\ LockedOut(permissions)

\* C37: at most one timer made by startAutoBackup is active.
C37_OneBackupTimer == Cardinality(intervals.active) <= 1

\* the rows of the backups made so far that are no longer in the table
DeletedBackups ==
    {backupCalls[c].row : c \in DOMAIN backupCalls} \ Range(databaseBackup)

\* C38: once the backupDatabase calls made have all returned, with
\* maxBackups as it is now, the table holds at most maxBackups rows and none
\* of them is older than a row that was deleted.
C38_KeepsLatestBackups ==
    (/\ Len(backupCalls) > 0
     /\ \A c \in DOMAIN backupCalls :
            /\ backupCalls[c].pc = "done"
            /\ backupCalls[c].maxBackups = dbManager.config.maxBackups) =>
        /\ Len(databaseBackup) <= dbManager.config.maxBackups
        /\ \A k \in 1..Len(databaseBackup) :
                \A gone \in DeletedBackups :
                    gone.timestamp <= databaseBackup[k].timestamp

---------------------------------------------------------------------------
(* SpecConnect: connectWithToken is called with a token and an optional    *)
(* repository, GitHub and the store answer either way, and a connected     *)
(* connector may be disconnected                                           *)

ConnectTokens == {"ghp_first", "ghp_second"}

ConnectRepositories == {"undefined", "datasets"}

TokenAnswers == {"not ok", "other login", "odarkserver", "throws"}

NextConnect ==
    \/ /\ Len(connectCalls) < MaxConnectCalls
       /\ \E token \in ConnectTokens, repository \in ConnectRepositories :
                ConnectWithToken(token, repository)
    \/ \E c \in DOMAIN connectCalls, answer \in TokenAnswers : TokenValidated(c, answer)
    \/ \E c \in DOMAIN connectCalls, ok \in BOOLEAN : ConfigSaved(c, ok)
    \/ \E c \in DOMAIN connectCalls, ok \in BOOLEAN : RepositorySetUp(c, ok)
    \/ \E c \in DOMAIN connectCalls, ok \in BOOLEAN : ConnectionTested(c, ok)
    \/ /\ connector.config.isConfigured
       /\ Disconnect

SpecConnect == Init /\ [][NextConnect]_vars

\* C39: when connectWithToken has returned success = false, and since the
\* call began no other call was at work on the connector, the connector's
\* config and the config row of the store are what they were when it began.
C39_FailedConnectChangesNothing ==
    \A c \in DOMAIN connectCalls :
        (/\ connectCalls[c].pc = "done"
         /\ ~connectCalls[c].success
         /\ connectCalls[c].undisturbed) =>
            /\ connector.config = connectCalls[c].before.config
            /\ connectorConfig = connectCalls[c].before.saved

===========================================================================
